---- MODULE Spec2Model ----
(***************************************************************************)
(* Deployment orchestration of the raysouz Terraform provider:             *)
(* LambdaDeploymentService (EnsureDeployment, CheckResourceExistence,      *)
(* DeleteDeployment) with the IAM, Lambda, CloudWatch Logs and API Gateway *)
(* services and repositories it drives.  One action per remote call site;  *)
(* the remote services answer from their own state, or with a terminal     *)
(* failure drawn from a bounded budget.                                    *)
(***************************************************************************)
EXTENDS Integers, Sequences, FiniteSets, TLC

VARIABLES
    remote,   \* state of the four remote services (IAM, Lambda, Logs, API Gateway)
    pc,       \* position of the single flow of control ("idle" between operations)
    loc,      \* local variables of the operation in progress
    calls,    \* remote calls issued by the operation in progress, in order
    done,     \* stages of the operation in progress that have returned success
    result,   \* what the last operation returned
    record,   \* the persisted ResourceState ("internal"), <<>> when none
    hist,     \* completed operations, oldest first
    tamper,   \* TRUE when remote state was changed out-of-band since the last operation
    faults,   \* terminal failures and cancellations still available to the environment
    cfg,      \* the declared configuration (lambda_config and routes), as written
    ctx,      \* the context handed to the operation in progress: "live" or "cancelled"
    wait,     \* what is left of the sleep in progress, in ticks (0 when none)
    limit,    \* how many operations Terraform runs on the resource
    s3,       \* the state bucket: what terraform.tfstate and its rollback copy hold
    conf,     \* providerConfigure: its inputs, position, diagnostics, state operations
    custom    \* the raysouz custom resource: its configuration, id, last handler

vars == <<remote, pc, loc, calls, done, result, record, hist, tamper, faults, cfg,
          ctx, wait, limit, s3, conf, custom>>

----------------------------------------------------------------------------
(* Bounds of the model *)

MaxOps == 2
MaxUpdateOps == 3
MaxFaults == 1
MaxRoutes == 2
WaitTicks == 2
MaxConfigures == 2
MaxCustomOps == 4

(* Program constants *)

RetentionDays == 14
RetryAttempts == 6
DefaultMemorySize == 128
DefaultTimeout == 30

----------------------------------------------------------------------------
(* Strings are sequences of tokens; "/" is the path separator token. *)

Slash == "/"

RECURSIVE TrimLeft(_)
TrimLeft(s) ==
    IF s /= <<>> /\ Head(s) = Slash THEN TrimLeft(Tail(s)) ELSE s

RECURSIVE TrimRight(_)
TrimRight(s) ==
    IF s /= <<>> /\ s[Len(s)] = Slash THEN TrimRight(SubSeq(s, 1, Len(s) - 1)) ELSE s

\* strings.Trim(path, "/")
Trim(s) == TrimRight(TrimLeft(s))

\* strings.Split(path, "/"): the parts between separators, empty parts kept
RECURSIVE SplitFrom(_, _)
SplitFrom(s, cur) ==
    IF s = <<>> THEN <<cur>>
    ELSE IF Head(s) = Slash THEN <<cur>> \o SplitFrom(Tail(s), <<>>)
    ELSE SplitFrom(Tail(s), Append(cur, Head(s)))

Split(s) == SplitFrom(s, <<>>)

\* strings.Count(path, "/")
RECURSIVE CountSlash(_)
CountSlash(s) ==
    IF s = <<>> THEN 0
    ELSE (IF Head(s) = Slash THEN 1 ELSE 0) + CountSlash(Tail(s))

\* fmt.Sprintf("%s-execution-role", functionName)
RoleNameOf(fnName) == <<fnName, "-execution-role">>

\* fmt.Sprintf("/aws/lambda/%s", functionName)
LogGroupNameOf(fnName) == <<"/aws/lambda/", fnName>>

\* fmt.Sprintf("apigateway-%s", apiID)
StatementIDOf(apiID) == <<"apigateway-", apiID>>

BasePolicyArn == "AWSLambdaBasicExecutionRole"

RoleArnOf(roleName) == <<"arn:iam:role/", roleName>>
FunctionArnOf(fnName) == <<"arn:lambda:function:", fnName>>

----------------------------------------------------------------------------
(* Inputs: the values of the resource schema *)

ApiID == "api1"
StageName == "prod"
FunctionName == "fn"

NilValue == "nil-interface"

\* fmt.Sprintf("%v", rm["authorizer_id"])
SprintfV(v) == IF v = NilValue THEN "<nil>" ELSE v

\* strings.ToUpper on the method names in use
ToUpper(m) ==
    CASE m = "get" -> "GET"
      [] m = "post" -> "POST"
      [] OTHER -> m

RawRoutes ==
    { [path |-> <<"/", "a", "/", "b">>, method |-> "get",
       authorization |-> "NONE", authorizer_id |-> "auth1"],
      [path |-> <<"/", "a", "/", "c">>, method |-> "POST",
       authorization |-> "CUSTOM", authorizer_id |-> "auth1"],
      [path |-> <<"/", "a">>, method |-> "GET",
       authorization |-> "AWS_IAM", authorizer_id |-> ""],
      [path |-> <<"a", "/", "b", "/">>, method |-> "post",
       authorization |-> "COGNITO_USER_POOLS", authorizer_id |-> NilValue],
      [path |-> <<"/">>, method |-> "GET",
       authorization |-> "NONE", authorizer_id |-> ""],
      [path |-> <<"/", "a">>, method |-> "POST",
       authorization |-> "CUSTOM", authorizer_id |-> "<nil>"] }

PolicyLists == { <<>>, <<"policy1">> }

RECURSIVE SeqsUpTo(_, _)
SeqsUpTo(S, n) ==
    IF n = 0 THEN { <<>> }
    ELSE LET shorter == SeqsUpTo(S, n - 1)
         IN  shorter \cup { Append(s, x) : s \in {t \in shorter : Len(t) = n - 1}, x \in S }

RawRouteLists == SeqsUpTo(RawRoutes, MaxRoutes)

\* extractConfig: one RouteConfig per raw route
RouteConfigOf(rm) ==
    [Path |-> rm.path,
     Method |-> ToUpper(rm.method),
     Authorization |-> rm.authorization,
     AuthorizerID |-> SprintfV(rm.authorizer_id)]

\* A Go int (64 bits) is held as two words: the value is high * 2^32 + low,
\* low being the low 32 bits read as two's complement
GoInt(n) == [high |-> 0, low |-> n]

\* int32(v) of a Go int: the low 32 bits, the high word dropped
Int32(v) == v.low

ExtractConfig(policies, rawRoutes, memory, timeout) ==
    [lc |-> [FunctionName |-> FunctionName, PolicyARNs |-> policies,
             MemorySize |-> Int32(memory), Timeout |-> Int32(timeout)],
     routes |-> [i \in 1..Len(rawRoutes) |-> RouteConfigOf(rawRoutes[i])]]

\* What d.Get hands to extractConfig: lambda_config and routes as declared,
\* memory_size and timeout left at the schema's defaults
Declared ==
    { [policies |-> p, routes |-> rr,
       memory_size |-> GoInt(DefaultMemorySize), timeout |-> GoInt(DefaultTimeout)] :
        p \in PolicyLists, rr \in RawRouteLists }

\* Integers a configuration can declare for memory_size and timeout (TypeInt
\* is a Go int): the defaults, values in and out of the service's range, the
\* ends of the 32-bit range and values beyond it
DeclaredInts ==
    {GoInt(DefaultMemorySize), GoInt(DefaultTimeout), GoInt(0 - 1), GoInt(0), GoInt(1024),
     GoInt(20000), GoInt(2^30 + (2^30 - 1)),
     [high |-> 1, low |-> 256], [high |-> 1, low |-> 0 - 1],
     [high |-> 0 - 1, low |-> 512]}

\* Configurations with one policy and one route, memory_size and timeout
\* declared
NumericDeclared ==
    { [policies |-> <<"policy1">>, routes |-> <<rr>>, memory_size |-> mem, timeout |-> t] :
        rr \in {r \in RawRoutes : r.method = "get"}, mem \in DeclaredInts, t \in DeclaredInts }

NoSpec ==
    [lc |-> [FunctionName |-> "", PolicyARNs |-> <<>>, MemorySize |-> 0, Timeout |-> 0],
     routes |-> <<>>]

----------------------------------------------------------------------------
(* Remote services *)

RootID == 1

InitRemote ==
    [roles |-> {}, attached |-> {}, fns |-> {}, logGroups |-> {},
     retention |-> {}, perms |-> {},
     resources |-> { [id |-> RootID, path |-> <<Slash>>] },
     methods |-> {}, integrations |-> {}, methodResponses |-> {},
     integrationResponses |-> {}, deployments |-> 0, nextId |-> RootID + 1]

\* The answers a local call (os.ReadFile) can get
LocalOutcomes(natural) == {natural} \cup (IF faults > 0 THEN {"Terminal"} ELSE {})

\* The answers a remote call can get: the one the remote state gives, or a
\* terminal failure (throttling, access denied, network) while the budget lasts;
\* with a cancelled context the SDK returns the context's error
Outcomes(natural) == IF ctx = "cancelled" THEN {"Canceled"} ELSE LocalOutcomes(natural)

Spend(out) == IF out = "Terminal" THEN faults - 1 ELSE faults

\* The same for a second call made by one repository method
OutcomesAfter(first, natural) ==
    IF ctx = "cancelled" THEN {"Canceled"}
    ELSE {natural} \cup (IF Spend(first) > 0 THEN {"Terminal"} ELSE {})

SpendBoth(first, second) == Spend(first) - (IF second = "Terminal" THEN 1 ELSE 0)

----------------------------------------------------------------------------
(* Bookkeeping shared by the actions *)

\* Go maps are functions; make(map[...]) is the empty one
EmptyMap == [x \in {} |-> 0]

MapPut(m, key, v) == [x \in DOMAIN m \cup {key} |-> IF x = key THEN v ELSE m[x]]

\* A wrong merge: what was gathered for the earlier routes is dropped
MapMergeLast(dst, src) == src

\* for k, v := range src { dst[k] = v }
MapMerge(dst, src) ==
    [x \in DOMAIN dst \cup DOMAIN src |-> IF x \in DOMAIN src THEN src[x] ELSE dst[x]]

InitLoc ==
    [op |-> "none", spec |-> NoSpec, st |-> <<>>,
     roleArn |-> <<>>, fnArn |-> <<>>, logGroup |-> <<>>,
     j |-> 0, i |-> 0, k |-> 0, n |-> 0,
     parts |-> <<>>, currentPath |-> <<>>, currentParentID |-> 0,
     resources |-> EmptyMap, apigwResources |-> EmptyMap, routesState |-> <<>>,
     rootID |-> 0, resourceID |-> 0, sorted |-> <<>>, errors |-> <<>>]

Log(call, stage, arg, out) ==
    Append(calls, [call |-> call, stage |-> stage, arg |-> arg, out |-> out])

\* A wrong persistence: "internal" written whatever EnsureDeployment returned
PersistAlways(op, kind, state) ==
    IF op = "ensure" THEN state
    ELSE IF op = "delete" /\ kind = "ok" THEN <<>>
    ELSE IF op = "check" /\ kind = "false" THEN <<>>
    ELSE record

\* A wrong reading: a failed existence check taken for drift
PersistDriftOnError(op, kind, state) ==
    IF op = "ensure" /\ kind = "ok" THEN state
    ELSE IF op = "delete" /\ kind = "ok" THEN <<>>
    ELSE IF op = "check" /\ kind \in {"false", "error"} THEN <<>>
    ELSE record

\* A wrong teardown: the record dropped whatever DeleteDeployment returned
PersistDeleteAlways(op, kind, state) ==
    IF op = "ensure" /\ kind = "ok" THEN state
    ELSE IF op = "delete" THEN <<>>
    ELSE IF op = "check" /\ kind = "false" THEN <<>>
    ELSE record

\* resourceCreate / resourceDelete: what a returned result does to "internal"
Persist(op, kind, state) ==
    IF op = "ensure" /\ kind = "ok" THEN state
    ELSE IF op = "delete" /\ kind = "ok" THEN <<>>
    ELSE IF op = "check" /\ kind = "false" THEN <<>>
    ELSE record

\* The positions at which the flow is inside time.Sleep
SleepPcs == {"EnsureRole_Propagation", "Delete_Consistency", "Delete_ResourcePause"}

\* A wrong clock: the sleep never gets shorter
TickStuck(w) == w

\* time.Sleep: one tick of the duration gone
Tick(w) == w - 1

\* time.Sleep(d) at position label: the flow stays parked until the duration is
\* over, whatever happens to the context; then it goes on
Sleep(label, newPc, newLoc, newDone) ==
    /\ pc = label
    /\ wait' = Tick(wait)
    /\ IF Tick(wait) = 0
       THEN pc' = newPc /\ loc' = newLoc /\ done' = newDone
       ELSE UNCHANGED <<pc, loc, done>>
    /\ UNCHANGED <<remote, calls, result, record, hist, tamper, faults, cfg, ctx, limit, s3, conf, custom>>

\* One step inside an operation
Step(newPc, newCalls, newLoc, newRemote, newDone) ==
    /\ pc' = newPc
    /\ calls' = newCalls
    /\ loc' = newLoc
    /\ remote' = newRemote
    /\ done' = newDone
    /\ wait' = IF newPc \in SleepPcs THEN WaitTicks ELSE 0
    /\ UNCHANGED <<result, record, hist, tamper, cfg, ctx, limit, s3, conf, custom>>

\* The operation returns (kind "ok" or "error") or the process panics
Finish(kind, msg, state, newCalls, newRemote) ==
    /\ pc' = "idle"
    /\ calls' = newCalls
    /\ remote' = newRemote
    /\ result' = [op |-> loc.op, kind |-> kind, msg |-> msg, state |-> state]
    /\ record' = Persist(loc.op, kind, state)
    /\ hist' = Append(hist, [op |-> loc.op, spec |-> loc.spec, kind |-> kind,
                             msg |-> msg, state |-> state, calls |-> newCalls,
                             done |-> done, tampered |-> tamper, before |-> record])
    /\ tamper' = FALSE
    /\ ctx' = "live"
    /\ wait' = 0
    /\ UNCHANGED <<loc, done, cfg, limit, s3, conf, custom>>

\* resourceRead lines 183-186, resourceDelete lines 222-226: with "internal"
\* empty the handler returns nil without calling the service (Delete after
\* d.SetId("")); it is entered in hist under the handler's name
ReturnAtOnce(handler) ==
    /\ loc' = [InitLoc EXCEPT !.op = handler]
    /\ calls' = <<>>
    /\ done' = {}
    /\ result' = [op |-> handler, kind |-> "ok", msg |-> <<>>, state |-> <<>>]
    /\ hist' = Append(hist, [op |-> handler, spec |-> NoSpec, kind |-> "ok",
                             msg |-> <<>>, state |-> <<>>, calls |-> <<>>,
                             done |-> {}, tampered |-> tamper, before |-> record])
    /\ tamper' = FALSE
    /\ UNCHANGED <<remote, pc, record, cfg, ctx, wait, limit, s3, conf, custom>>

\* A wrong wrapping: every failure reported as the router's
StageErrorAllRouter(stage) == "APIGW route setup failed"

\* EnsureDeployment lines 51, 58, 64, 71, 77: the text each stage's error is
\* wrapped in
StageError(stage) ==
    CASE stage = "identity" -> "IAM role setup failed"
      [] stage = "compute" -> "Lambda function setup failed"
      [] stage = "logsink" -> "Log group setup failed"
      [] stage = "permission" -> "Lambda permission failed"
      [] stage = "router" -> "APIGW route setup failed"

\* The state bucket before anything was written to it
NoObjects == [state |-> "none", rollback |-> "none"]

\* providerConfigure not yet run
NoConf ==
    [pc |-> "idle", s3Bucket |-> "", doRollback |-> FALSE, diags |-> <<>>,
     ops |-> <<>>, bundle |-> FALSE, runs |-> 0]

\* No custom resource declared
NoCustom == [message |-> "", cloud |-> "", id |-> "", last |-> "none", err |-> "", n |-> 0]

\* Nothing deployed yet, one of the configurations declared, the remote
\* services as given
InitOn(services, configs, ops, buckets, customs) ==
    /\ s3 \in buckets
    /\ conf = NoConf
    /\ custom \in customs
    /\ remote = services
    /\ pc = "idle"
    /\ loc = InitLoc
    /\ calls = <<>>
    /\ done = {}
    /\ result = [op |-> "none", kind |-> "none", msg |-> <<>>, state |-> <<>>]
    /\ record = <<>>
    /\ hist = <<>>
    /\ tamper = FALSE
    /\ faults = MaxFaults
    /\ cfg \in configs
    /\ ctx = "live"
    /\ wait = 0
    /\ limit = ops

\* The same on a gateway that holds nothing but its root
InitWith(configs, ops) == InitOn(InitRemote, configs, ops, {NoObjects}, {NoCustom})

Init == InitWith(Declared, MaxOps)

\* A gateway other deployments use too: it already holds the resource /a
SharedRemote ==
    [InitRemote EXCEPT !.resources = @ \cup {[id |-> RootID + 1, path |-> <<Slash, "a">>]},
                       !.nextId = RootID + 2]

InitShared == InitOn(SharedRemote, Declared, MaxOps, {NoObjects}, {NoCustom})

InitNumeric == InitWith(NumericDeclared, MaxOps)

\* The configurations whose route list is later shortened: one custom policy,
\* the route on /a/b and a second route, on the root or on /a/c
UpdateDeclared ==
    {c \in Declared :
       /\ c.policies = <<"policy1">>
       /\ Len(c.routes) = 2
       /\ c.routes[1].path = <<"/", "a", "/", "b">> /\ c.routes[1].method = "get"
       /\ c.routes[2].path \in {<<"/">>, <<"/", "a", "/", "c">>}}

InitUpdate == InitWith(UpdateDeclared, MaxUpdateOps)

----------------------------------------------------------------------------
(* resourceCreate / resourceUpdate -> EnsureDeployment *)

StartEnsure ==
    /\ pc = "idle"
    /\ Len(hist) < limit
    /\ Step("EnsureRole_GetRole", <<>>,
            [InitLoc EXCEPT !.op = "ensure",
                            !.spec = ExtractConfig(cfg.policies, cfg.routes,
                                                  cfg.memory_size, cfg.timeout)], remote, {})
    /\ UNCHANGED faults

----------------------------------------------------------------------------
(* Stage 1: IAMService.EnsureRole *)

\* A wrong re-fetch: the resource a conflicting create points at is never found
RefetchedNever(again) == FALSE

\* CreateRole lines 241-244, EnsureFunction lines 74-77: the re-fetch after a
\* conflict found the resource (r != nil, g2 != nil); its error is dropped
Refetched(again) == again = "ok"

\* IAMRepository.GetRole: NoSuchEntity is (nil, nil), anything else an error
GetRoleFails(out) == out \notin {"ok", "NoSuchEntity"}

\* iam GetRole as answered by the remote
GetRoleAnswer(roleName) ==
    IF roleName \in remote.roles THEN "ok" ELSE "NoSuchEntity"

EnsureRole_GetRole ==
    /\ pc = "EnsureRole_GetRole"
    /\ LET roleName == RoleNameOf(loc.spec.lc.FunctionName) IN
       \E out \in Outcomes(GetRoleAnswer(roleName)) :
         LET c == Log("GetRole", "identity", roleName, out) IN
         /\ faults' = Spend(out)
         /\ IF GetRoleFails(out)
            THEN Finish("error", <<StageError("identity"), "GetRole failed">>,
                        <<>>, c, remote)
            ELSE IF out = "NoSuchEntity"
            THEN Step("EnsureRole_CreateRole", c, loc, remote, done)
            ELSE Step("EnsureRole_AttachBase", c,
                      [loc EXCEPT !.roleArn = RoleArnOf(roleName)], remote, done)

\* iam CreateRole as answered by the remote
CreateRoleAnswer(roleName) ==
    IF roleName \in remote.roles THEN "EntityAlreadyExists" ELSE "ok"

\* IAMRepository.CreateRole, with its re-fetch on EntityAlreadyExists
EnsureRole_CreateRole ==
    /\ pc = "EnsureRole_CreateRole"
    /\ LET roleName == RoleNameOf(loc.spec.lc.FunctionName) IN
       \E out \in Outcomes(CreateRoleAnswer(roleName)) :
       \E again \in OutcomesAfter(out, GetRoleAnswer(roleName)) :
         LET c == Log("CreateRole", "identity", roleName, out)
             c2 == Append(c, [call |-> "GetRole", stage |-> "identity",
                              arg |-> roleName, out |-> again])
         IN
         IF out = "ok"
         THEN /\ again \in {GetRoleAnswer(roleName), "Canceled"}
              /\ faults' = Spend(out)
              /\ Step("EnsureRole_AttachBase", c,
                      [loc EXCEPT !.roleArn = RoleArnOf(roleName)],
                      [remote EXCEPT !.roles = @ \cup {roleName}], done)
         ELSE IF out = "EntityAlreadyExists"
         THEN /\ faults' = SpendBoth(out, again)
              /\ IF Refetched(again)
                 THEN Step("EnsureRole_AttachBase", c2,
                           [loc EXCEPT !.roleArn = RoleArnOf(roleName)], remote, done)
                 ELSE Finish("error", <<StageError("identity"), "CreateRole">>,
                             <<>>, c2, remote)
         ELSE /\ again \in {GetRoleAnswer(roleName), "Canceled"}
              /\ faults' = Spend(out)
              /\ Finish("error", <<StageError("identity"), "CreateRole">>,
                        <<>>, c, remote)

\* iam AttachRolePolicy as answered by the remote (attaching twice succeeds)
AttachPolicyAnswer(roleName) ==
    IF roleName \in remote.roles THEN "ok" ELSE "NoSuchEntity"

\* A wrong sequencing: the router stage right after any stage
NextStagePcRouterFirst(stage) == "Routes_GetRoot"

\* EnsureDeployment: the stage that follows a stage that returned success
NextStagePc(stage) ==
    CASE stage = "identity" -> "EnsureFunction_ReadZip"
      [] stage = "compute" -> "EnsureLogGroup_Create"
      [] stage = "logsink" -> "AddPermission"
      [] stage = "permission" -> "Routes_GetRoot"

\* EnsureRole: the loop over policyARNs, then the propagation wait
AfterAttach(j, policies) ==
    IF j <= Len(policies) THEN "EnsureRole_AttachCustom" ELSE "EnsureRole_Propagation"

EnsureRole_AttachBase ==
    /\ pc = "EnsureRole_AttachBase"
    /\ LET roleName == RoleNameOf(loc.spec.lc.FunctionName) IN
       \E out \in Outcomes(AttachPolicyAnswer(roleName)) :
         LET c == Log("AttachRolePolicy", "identity", <<roleName, BasePolicyArn>>, out) IN
         /\ faults' = Spend(out)
         /\ IF out = "ok"
            THEN Step(AfterAttach(1, loc.spec.lc.PolicyARNs), c, [loc EXCEPT !.j = 1],
                      [remote EXCEPT !.attached = @ \cup {<<roleName, BasePolicyArn>>}],
                      done)
            ELSE Finish("error", <<StageError("identity"), "AttachPolicy failed">>,
                        <<>>, c, remote)

EnsureRole_AttachCustom ==
    /\ pc = "EnsureRole_AttachCustom"
    /\ LET roleName == RoleNameOf(loc.spec.lc.FunctionName)
           arn == loc.spec.lc.PolicyARNs[loc.j]
       IN
       \E out \in Outcomes(AttachPolicyAnswer(roleName)) :
         LET c == Log("AttachRolePolicy", "identity", <<roleName, arn>>, out) IN
         /\ faults' = Spend(out)
         /\ IF out = "ok"
            THEN Step(AfterAttach(loc.j + 1, loc.spec.lc.PolicyARNs), c,
                      [loc EXCEPT !.j = @ + 1],
                      [remote EXCEPT !.attached = @ \cup {<<roleName, arn>>}],
                      done)
            ELSE Finish("error", <<StageError("identity"), "failed to attach policy">>,
                        <<>>, c, remote)

\* EnsureRole lines 59-63: time.Sleep(10 * time.Second), then the role's ARN
EnsureRole_Propagation ==
    Sleep("EnsureRole_Propagation", NextStagePc("identity"), loc, done \cup {"identity"})

----------------------------------------------------------------------------
(* Stage 2: LambdaRepository.EnsureFunction *)

\* os.ReadFile(lc.ZipPath): a local read that can fail
EnsureFunction_ReadZip ==
    /\ pc = "EnsureFunction_ReadZip"
    /\ \E out \in LocalOutcomes("ok") :
         LET c == Log("ReadFile", "compute", "zip_file", out) IN
         /\ faults' = Spend(out)
         /\ IF out = "ok"
            THEN Step("EnsureFunction_Get", c, loc, remote, done)
            ELSE Finish("error", <<StageError("compute"), "reading zip file">>,
                        <<>>, c, remote)

\* LambdaRepository.GetFunction: not-found is (nil, nil), anything else an error
GetFunctionFails(out) == out \notin {"ok", "ResourceNotFoundException"}

\* lambda GetFunction as answered by the remote
GetFunctionAnswer(fnName) ==
    IF fnName \in remote.fns THEN "ok" ELSE "ResourceNotFoundException"

\* A wrong branch: create whatever the lookup said
FunctionBranchCreate(out) == "EnsureFunction_Create"

\* EnsureFunction line 45: update when got != nil && err == nil, otherwise create
FunctionBranch(out) ==
    IF out = "ok" THEN "EnsureFunction_UpdateConfig" ELSE "EnsureFunction_Create"

EnsureFunction_Get ==
    /\ pc = "EnsureFunction_Get"
    /\ LET fnName == loc.spec.lc.FunctionName IN
       \E out \in Outcomes(GetFunctionAnswer(fnName)) :
         /\ faults' = Spend(out)
         /\ Step(FunctionBranch(out), Log("GetFunction", "compute", fnName, out),
                 loc, remote, done)

\* lambda UpdateFunctionConfiguration / UpdateFunctionCode as answered by the remote
\* CreateFunctionInput / UpdateFunctionConfigurationInput: the fields followed
FunctionInput(lc) ==
    [FunctionName |-> lc.FunctionName, MemorySize |-> lc.MemorySize,
     Timeout |-> lc.Timeout]

\* The service's check of the numeric fields (memory 128-10240 MB, timeout
\* 1-900 s)
Validated(input, answer) ==
    IF input.MemorySize \in 128..10240 /\ input.Timeout \in 1..900 THEN answer
    ELSE "InvalidParameterValueException"

UpdateFunctionAnswer(fnName) ==
    IF fnName \in remote.fns THEN "ok" ELSE "ResourceNotFoundException"

EnsureFunction_UpdateConfig ==
    /\ pc = "EnsureFunction_UpdateConfig"
    /\ LET fnName == loc.spec.lc.FunctionName IN
       \E out \in Outcomes(Validated(FunctionInput(loc.spec.lc),
                                      UpdateFunctionAnswer(fnName))) :
         LET c == Log("UpdateFunctionConfiguration", "compute",
                      FunctionInput(loc.spec.lc), out) IN
         /\ faults' = Spend(out)
         /\ IF out = "ok"
            THEN Step("EnsureFunction_UpdateCode", c, loc, remote, done)
            ELSE Finish("error", <<StageError("compute"),
                                   "failed to update lambda configuration">>,
                        <<>>, c, remote)

EnsureFunction_UpdateCode ==
    /\ pc = "EnsureFunction_UpdateCode"
    /\ LET fnName == loc.spec.lc.FunctionName IN
       \E out \in Outcomes(UpdateFunctionAnswer(fnName)) :
         LET c == Log("UpdateFunctionCode", "compute", fnName, out) IN
         /\ faults' = Spend(out)
         /\ IF out = "ok"
            THEN Step("EnsureFunction_Wait", c, loc, remote, done)
            ELSE Finish("error", <<StageError("compute"),
                                   "failed to update lambda code">>,
                        <<>>, c, remote)

\* waitForActive: the waiter; a failure or time-out leads to one final check
EnsureFunction_Wait ==
    /\ pc = "EnsureFunction_Wait"
    /\ LET fnName == loc.spec.lc.FunctionName IN
       \E out \in Outcomes(UpdateFunctionAnswer(fnName)) :
         LET c == Log("WaitFunctionActive", "compute", fnName, out) IN
         /\ faults' = Spend(out)
         /\ IF out = "ok"
            THEN Step(NextStagePc("compute"), c,
                      [loc EXCEPT !.fnArn = FunctionArnOf(fnName)], remote,
                      done \cup {"compute"})
            ELSE Step("EnsureFunction_FinalCheck", c, loc, remote, done)

\* waitForActive lines 172-177: only an error of the final GetFunction fails the wait
FinalCheckFails(out) == out \notin {"ok", "ResourceNotFoundException"}

EnsureFunction_FinalCheck ==
    /\ pc = "EnsureFunction_FinalCheck"
    /\ LET fnName == loc.spec.lc.FunctionName IN
       \E out \in Outcomes(GetFunctionAnswer(fnName)) :
         LET c == Log("GetFunction", "compute", fnName, out) IN
         /\ faults' = Spend(out)
         /\ IF FinalCheckFails(out)
            THEN Finish("error", <<StageError("compute"),
                                   "function update wait failed and final check failed">>,
                        <<>>, c, remote)
            ELSE Step(NextStagePc("compute"), c,
                      [loc EXCEPT !.fnArn = FunctionArnOf(fnName)], remote,
                      done \cup {"compute"})

\* lambda CreateFunction as answered by the remote
CreateFunctionAnswer(fnName) ==
    IF fnName \in remote.fns THEN "ResourceConflictException" ELSE "ok"

\* EnsureFunction lines 62-88: create, with the re-fetch on ResourceConflictException
EnsureFunction_Create ==
    /\ pc = "EnsureFunction_Create"
    /\ LET fnName == loc.spec.lc.FunctionName IN
       \E out \in Outcomes(Validated(FunctionInput(loc.spec.lc),
                                      CreateFunctionAnswer(fnName))) :
       \E again \in OutcomesAfter(out, GetFunctionAnswer(fnName)) :
         LET c == Log("CreateFunction", "compute", FunctionInput(loc.spec.lc), out)
             c2 == Append(c, [call |-> "GetFunction", stage |-> "compute",
                              arg |-> fnName, out |-> again])
         IN
         IF out = "ok"
         THEN /\ again \in {GetFunctionAnswer(fnName), "Canceled"}
              /\ faults' = Spend(out)
              /\ Step(NextStagePc("compute"), c,
                      [loc EXCEPT !.fnArn = FunctionArnOf(fnName)],
                      [remote EXCEPT !.fns = @ \cup {fnName}],
                      done \cup {"compute"})
         ELSE IF out = "ResourceConflictException"
         THEN /\ faults' = SpendBoth(out, again)
              /\ IF Refetched(again)
                 THEN Step(NextStagePc("compute"), c2,
                           [loc EXCEPT !.fnArn = FunctionArnOf(fnName)], remote,
                           done \cup {"compute"})
                 ELSE Finish("error", <<StageError("compute"), "CreateFunction">>,
                             <<>>, c2, remote)
         ELSE /\ again \in {GetFunctionAnswer(fnName), "Canceled"}
              /\ faults' = Spend(out)
              /\ Finish("error", <<StageError("compute"), "CreateFunction">>,
                        <<>>, c, remote)

----------------------------------------------------------------------------
(* Stage 3: CWLogsService.EnsureLogGroup -> CreateLogGroupIfNotExists *)

\* isAPIErrorCode: a nil error is not the code; for any other error the method
\* ErrorCode is called on the nil interface value apiErr, which panics
IsAPIErrorCode(err, code) == IF err = "ok" THEN "false" ELSE "panic"

\* logs CreateLogGroup as answered by the remote
CreateLogGroupAnswer(name) ==
    IF name \in remote.logGroups THEN "ResourceAlreadyExistsException" ELSE "ok"

\* CreateLogGroupIfNotExists lines 23-31
AfterCreateLogGroup(err) ==
    IF err = "ok" THEN "continue"
    ELSE IF IsAPIErrorCode(err, "ResourceAlreadyExistsException") = "panic" THEN "panic"
    ELSE IF IsAPIErrorCode(err, "ResourceAlreadyExistsException") = "false"
            /\ IsAPIErrorCode(err, "ResourceAlreadyExists") = "false" THEN "return"
    ELSE "continue"

EnsureLogGroup_Create ==
    /\ pc = "EnsureLogGroup_Create"
    /\ LET name == LogGroupNameOf(loc.spec.lc.FunctionName) IN
       \E out \in Outcomes(CreateLogGroupAnswer(name)) :
         LET c == Log("CreateLogGroup", "logsink", name, out)
             r == [remote EXCEPT !.logGroups = IF out = "ok" THEN @ \cup {name} ELSE @]
             what == AfterCreateLogGroup(out)
         IN
         /\ faults' = Spend(out)
         /\ IF what = "continue"
            THEN Step("EnsureLogGroup_PutRetention", c, [loc EXCEPT !.k = 0], r, done)
            ELSE IF what = "panic"
            THEN Finish("panic", <<"nil pointer dereference", "isAPIErrorCode">>,
                        <<>>, c, r)
            ELSE Finish("error", <<StageError("logsink"), "CreateLogGroup">>,
                        <<>>, c, r)

\* logs PutRetentionPolicy as answered by the remote
PutRetentionAnswer(name) ==
    IF name \in remote.logGroups THEN "ok" ELSE "ResourceNotFoundException"

\* The closure handed to retry (lines 34-44): nil, the error, or a panic
RetentionAttempt(perr) ==
    IF IsAPIErrorCode(perr, "InvalidParameterException") = "panic" THEN "panic"
    ELSE IF IsAPIErrorCode(perr, "InvalidParameterException") = "true" THEN "ok"
    ELSE perr

\* retry: attempt k (0-based) of RetryAttempts
EnsureLogGroup_PutRetention ==
    /\ pc = "EnsureLogGroup_PutRetention"
    /\ LET name == LogGroupNameOf(loc.spec.lc.FunctionName) IN
       \E out \in Outcomes(PutRetentionAnswer(name)) :
         LET c == Log("PutRetentionPolicy", "logsink", <<name, RetentionDays>>, out)
             r == [remote EXCEPT !.retention =
                      IF out = "ok" THEN @ \cup {<<name, RetentionDays>>} ELSE @]
             lastErr == RetentionAttempt(out)
         IN
         /\ faults' = Spend(out)
         /\ IF lastErr = "panic"
            THEN Finish("panic", <<"nil pointer dereference", "isAPIErrorCode">>,
                        <<>>, c, r)
            ELSE IF lastErr = "ok"
            THEN Step(NextStagePc("logsink"), c, [loc EXCEPT !.logGroup = name], r,
                      done \cup {"logsink"})
            ELSE IF loc.k + 1 < RetryAttempts
            THEN Step("EnsureLogGroup_PutRetention", c, [loc EXCEPT !.k = @ + 1], r, done)
            ELSE Finish("error", <<StageError("logsink"),
                                   "PutRetentionPolicy failed after retries">>,
                        <<>>, c, r)

----------------------------------------------------------------------------
(* Stage 4: LambdaRepository.AddPermission *)

\* lambda AddPermission as answered by the remote
AddPermissionAnswer(fnName, statementID) ==
    IF fnName \notin remote.fns THEN "ResourceNotFoundException"
    ELSE IF <<fnName, statementID>> \in remote.perms THEN "ResourceConflictException"
    ELSE "ok"

\* EnsureDeployment hands its statementID in as the repository's apiID parameter
AddPermission ==
    /\ pc = "AddPermission"
    /\ LET fnName == loc.spec.lc.FunctionName
           statementID == StatementIDOf(StatementIDOf(ApiID))
       IN
       \E out \in Outcomes(AddPermissionAnswer(fnName, statementID)) :
         LET c == Log("AddPermission", "permission", <<fnName, statementID>>, out) IN
         /\ faults' = Spend(out)
         /\ IF out = "ok"
            THEN Step(NextStagePc("permission"), c, loc,
                      [remote EXCEPT !.perms = @ \cup {<<fnName, statementID>>}],
                      done \cup {"permission"})
            ELSE IF out = "ResourceConflictException"
            THEN Step(NextStagePc("permission"), c, loc, remote,
                      done \cup {"permission"})
            ELSE Finish("error", <<StageError("permission"), "AddPermission failed">>,
                        <<>>, c, remote)

----------------------------------------------------------------------------
(* Stage 5: APIGatewayService.EnsureRoutesAndDeploy *)

\* apigateway GetResources as answered by the remote: the id at a path, 0 if none
ResourceAt(path) ==
    IF \E res \in remote.resources : res.path = path
    THEN (CHOOSE res \in remote.resources : res.path = path).id
    ELSE 0

\* EnsureRoutesAndDeploy line 36 calling EnsurePath lines 101-110 for route i
EnterPath(l, i) ==
    LET path == Trim(l.spec.routes[i].Path) IN
    IF path = <<>>
    THEN [l EXCEPT !.i = i, !.resources = EmptyMap, !.parts = <<>>, !.k = 0,
                   !.resourceID = l.rootID]
    ELSE [l EXCEPT !.i = i, !.resources = EmptyMap, !.parts = Split(path), !.k = 1,
                   !.currentParentID = l.rootID, !.currentPath = <<>>]

\* A wrong loop: the deployment issued after the first route
RoutePcEarly(l, i) ==
    IF i > 1 \/ i > Len(l.spec.routes) THEN "Routes_Deploy"
    ELSE IF Trim(l.spec.routes[i].Path) = <<>> THEN "Routes_PutMethod"
    ELSE "Routes_FindPath"

\* The loop over routes: the next route's first call, or the deployment
RoutePc(l, i) ==
    IF i > Len(l.spec.routes) THEN "Routes_Deploy"
    ELSE IF Trim(l.spec.routes[i].Path) = <<>> THEN "Routes_PutMethod"
    ELSE "Routes_FindPath"

RouteLoc(l, i) == IF i > Len(l.spec.routes) THEN [l EXCEPT !.i = i] ELSE EnterPath(l, i)

\* GetRootResourceID
Routes_GetRoot ==
    /\ pc = "Routes_GetRoot"
    /\ \E out \in Outcomes("ok") :
         LET c == Log("GetResources", "router", <<Slash>>, out)
             l == [loc EXCEPT !.rootID = ResourceAt(<<Slash>>)]
         IN
         /\ faults' = Spend(out)
         /\ IF out /= "ok"
            THEN Finish("error", <<StageError("router"), "getting root resource ID">>,
                        <<>>, c, remote)
            ELSE IF ResourceAt(<<Slash>>) = 0
            THEN Finish("error", <<StageError("router"), "getting root resource ID",
                                   "root resource not found">>, <<>>, c, remote)
            ELSE Step(RoutePc(l, 1), c, RouteLoc(l, 1), remote, done)

\* EnsurePath: after a prefix is resolved, the next part or the return to the
\* service, which merges pathResources into apigwState.Resources (lines 42-44)
PathPc(l) == IF l.k < Len(l.parts) THEN "Routes_FindPath" ELSE "Routes_PutMethod"

PathLoc(l) ==
    IF l.k < Len(l.parts) THEN [l EXCEPT !.k = @ + 1]
    ELSE [l EXCEPT !.resourceID = l.currentParentID,
                   !.apigwResources = MapMerge(@, l.resources)]

\* EnsurePath lines 117-121 and 133-135, 141-142: the prefix's resource is known
Resolved(l, path, id) ==
    [l EXCEPT !.currentPath = path, !.currentParentID = id,
              !.resources = MapPut(@, path, [ResourceID |-> id,
                                             PathPart |-> l.parts[l.k]])]

\* EnsurePath lines 113-121: findResourceByPath for the next cumulative prefix
Routes_FindPath ==
    /\ pc = "Routes_FindPath"
    /\ LET path == loc.currentPath \o <<Slash>> \o loc.parts[loc.k] IN
       \E out \in Outcomes("ok") :
         LET c == Log("GetResources", "router", path, out)
             existing == IF out = "ok" THEN ResourceAt(path) ELSE 0
             l == Resolved(loc, path, existing)
         IN
         /\ faults' = Spend(out)
         /\ IF existing /= 0
            THEN Step(PathPc(l), c, PathLoc(l), remote, done)
            ELSE Step("Routes_CreateResource", c, [loc EXCEPT !.currentPath = path],
                      remote, done)

\* The path the gateway gives a resource created under a parent
ChildPath(parentPath, part) ==
    IF parentPath = <<Slash>> THEN <<Slash>> \o part ELSE parentPath \o <<Slash>> \o part

\* apigateway CreateResource as answered by the remote
CreateResourceAnswer(parentID, part) ==
    IF ~ \E res \in remote.resources : res.id = parentID THEN "NotFoundException"
    ELSE LET parent == CHOOSE res \in remote.resources : res.id = parentID IN
         IF ResourceAt(ChildPath(parent.path, part)) /= 0 THEN "ConflictException"
         ELSE "ok"

\* A wrong re-query: the resource that won the race is never found
RequeriedNever(again, path) == 0

\* EnsurePath lines 131-132: existing, _ := findResourceByPath after a
\* ConflictException; "" (0 here) when the lookup fails or finds nothing
Requeried(again, path) == IF again = "ok" THEN ResourceAt(path) ELSE 0

\* EnsurePath lines 124-142: create, with the re-query on ConflictException
Routes_CreateResource ==
    /\ pc = "Routes_CreateResource"
    /\ LET part == loc.parts[loc.k]
           parentID == loc.currentParentID
       IN
       \E out \in Outcomes(CreateResourceAnswer(parentID, part)) :
       \E again \in OutcomesAfter(out, "ok") :
         LET c == Log("CreateResource", "router", <<parentID, part, loc.currentPath>>, out)
             c2 == Append(c, [call |-> "GetResources", stage |-> "router",
                              arg |-> loc.currentPath, out |-> again])
             existing == Requeried(again, loc.currentPath)
             created == Resolved(loc, loc.currentPath, remote.nextId)
             found == Resolved(loc, loc.currentPath, existing)
             parent == CHOOSE res \in remote.resources : res.id = parentID
         IN
         IF out = "ok"
         THEN /\ again \in {"ok", "Canceled"}
              /\ faults' = Spend(out)
              /\ Step(PathPc(created), c, PathLoc(created),
                      [remote EXCEPT
                         !.resources = @ \cup {[id |-> remote.nextId,
                                                path |-> ChildPath(parent.path, part)]},
                         !.nextId = @ + 1],
                      done)
         ELSE IF out = "ConflictException"
         THEN /\ faults' = SpendBoth(out, again)
              /\ IF existing /= 0
                 THEN Step(PathPc(found), c2, PathLoc(found), remote, done)
                 ELSE Finish("error", <<StageError("router"), "ensure path",
                                        "CreateResource failed for path">>,
                             <<>>, c2, remote)
         ELSE /\ again \in {"ok", "Canceled"}
              /\ faults' = Spend(out)
              /\ Finish("error", <<StageError("router"), "ensure path",
                                   "CreateResource failed for path">>, <<>>, c, remote)

NoAuthorizer == "no-authorizer"

\* PutMethodAndIntegration line 159: whether input.AuthorizerId is set
AttachAuthorizer(authorization, authorizerID) ==
    authorization /= "NONE" /\ authorizerID /= "" /\ authorizerID /= "<nil>"

\* apigateway PutMethod as answered by the remote
PutMethodAnswer(resourceID, method) ==
    IF ~ \E res \in remote.resources : res.id = resourceID THEN "NotFoundException"
    ELSE IF \E m \in remote.methods : m.rid = resourceID /\ m.method = method
    THEN "ConflictException"
    ELSE "ok"

\* PutMethodAndIntegration: every error but ConflictException is returned
PutFails(out) == out \notin {"ok", "ConflictException"}

Routes_PutMethod ==
    /\ pc = "Routes_PutMethod"
    /\ LET r == loc.spec.routes[loc.i]
           authorizer == IF AttachAuthorizer(r.Authorization, r.AuthorizerID)
                         THEN r.AuthorizerID ELSE NoAuthorizer
           input == [rid |-> loc.resourceID, method |-> r.Method,
                     authorization |-> r.Authorization, authorizer |-> authorizer]
       IN
       \E out \in Outcomes(PutMethodAnswer(loc.resourceID, r.Method)) :
         LET c == Log("PutMethod", "router", input, out) IN
         /\ faults' = Spend(out)
         /\ IF PutFails(out)
            THEN Finish("error", <<StageError("router"), "put method/integration",
                                   "PutMethod failed">>, <<>>, c, remote)
            ELSE Step("Routes_PutIntegration", c, loc,
                      [remote EXCEPT !.methods = IF out = "ok" THEN @ \cup {input} ELSE @],
                      done)

\* apigateway PutIntegration / PutIntegrationResponse: they replace what is there
PutOnMethodAnswer(present) == IF present THEN "ok" ELSE "NotFoundException"

Routes_PutIntegration ==
    /\ pc = "Routes_PutIntegration"
    /\ LET key == <<loc.resourceID, loc.spec.routes[loc.i].Method>>
           present == \E m \in remote.methods : m.rid = key[1] /\ m.method = key[2]
       IN
       \E out \in Outcomes(PutOnMethodAnswer(present)) :
         LET c == Log("PutIntegration", "router", <<key, FunctionArnOf(FunctionName)>>, out) IN
         /\ faults' = Spend(out)
         /\ IF PutFails(out)
            THEN Finish("error", <<StageError("router"), "put method/integration",
                                   "PutIntegration failed">>, <<>>, c, remote)
            ELSE Step("Routes_PutMethodResponse", c, loc,
                      [remote EXCEPT !.integrations = IF out = "ok" THEN @ \cup {key} ELSE @],
                      done)

\* apigateway PutMethodResponse as answered by the remote
PutMethodResponseAnswer(key) ==
    IF ~ \E m \in remote.methods : m.rid = key[1] /\ m.method = key[2]
    THEN "NotFoundException"
    ELSE IF key \in remote.methodResponses THEN "ConflictException"
    ELSE "ok"

Routes_PutMethodResponse ==
    /\ pc = "Routes_PutMethodResponse"
    /\ LET key == <<loc.resourceID, loc.spec.routes[loc.i].Method>> IN
       \E out \in Outcomes(PutMethodResponseAnswer(key)) :
         LET c == Log("PutMethodResponse", "router", key, out) IN
         /\ faults' = Spend(out)
         /\ IF PutFails(out)
            THEN Finish("error", <<StageError("router"), "put method/integration",
                                   "PutMethodResponse failed">>, <<>>, c, remote)
            ELSE Step("Routes_PutIntegrationResponse", c, loc,
                      [remote EXCEPT !.methodResponses =
                                        IF out = "ok" THEN @ \cup {key} ELSE @],
                      done)

\* A wrong record: every route noted against the root resource
RecordedAtRoot(l) ==
    LET r == l.spec.routes[l.i] IN
    [l EXCEPT !.routesState =
        Append(@, [Path |-> r.Path, Method |-> r.Method,
                   Authorization |-> r.Authorization, AuthorizerID |-> r.AuthorizerID,
                   ResourceID |-> l.rootID])]

\* EnsureRoutesAndDeploy lines 53-55: the route is recorded
Recorded(l) ==
    LET r == l.spec.routes[l.i] IN
    [l EXCEPT !.routesState =
        Append(@, [Path |-> r.Path, Method |-> r.Method,
                   Authorization |-> r.Authorization, AuthorizerID |-> r.AuthorizerID,
                   ResourceID |-> l.resourceID])]

Routes_PutIntegrationResponse ==
    /\ pc = "Routes_PutIntegrationResponse"
    /\ LET key == <<loc.resourceID, loc.spec.routes[loc.i].Method>> IN
       \E out \in Outcomes(PutOnMethodAnswer(key \in remote.integrations)) :
         LET c == Log("PutIntegrationResponse", "router", key, out)
             l == Recorded(loc)
         IN
         /\ faults' = Spend(out)
         /\ IF PutFails(out)
            THEN Finish("error", <<StageError("router"), "put method/integration",
                                   "PutIntegrationResponse failed">>, <<>>, c, remote)
            ELSE Step(RoutePc(l, l.i + 1), c, RouteLoc(l, l.i + 1),
                      [remote EXCEPT !.integrationResponses =
                                        IF out = "ok" THEN @ \cup {key} ELSE @],
                      done)

\* EnsureDeployment lines 81-91: the ResourceState returned
ResourceStateOf(l) ==
    [RoleName |-> RoleNameOf(l.spec.lc.FunctionName),
     FunctionName |-> l.spec.lc.FunctionName,
     FunctionArn |-> l.fnArn,
     APIGatewayID |-> ApiID,
     StageName |-> StageName,
     Routes |-> l.routesState,
     LogGroup |-> l.logGroup,
     Resources |-> l.apigwResources,
     AttachedPolicyARNs |-> l.spec.lc.PolicyARNs]

\* DeployAPI, then the return of EnsureRoutesAndDeploy and of EnsureDeployment
Routes_Deploy ==
    /\ pc = "Routes_Deploy"
    /\ \E out \in Outcomes("ok") :
         LET c == Log("CreateDeployment", "router", <<ApiID, StageName>>, out) IN
         /\ faults' = Spend(out)
         /\ IF out = "ok"
            THEN Finish("ok", <<>>, <<ResourceStateOf(loc)>>, c,
                        [remote EXCEPT !.deployments = @ + 1])
            ELSE Finish("error", <<StageError("router"), "deploy api failed">>,
                        <<>>, c, remote)

----------------------------------------------------------------------------
(* resourceRead -> CheckResourceExistence *)

StartCheck ==
    /\ pc = "idle"
    /\ Len(hist) < limit
    /\ IF record = <<>>
       THEN ReturnAtOnce("resourceRead")
       ELSE Step("Check_Role", <<>>, [InitLoc EXCEPT !.op = "check", !.st = record[1]],
                 remote, {})
    /\ UNCHANGED faults

\* IAMService.CheckRoleExists: (role != nil), an error only for a failed lookup
RoleVerdict(out) == IF out = "ok" THEN "true" ELSE "false"

Check_Role ==
    /\ pc = "Check_Role"
    /\ \E out \in Outcomes(GetRoleAnswer(loc.st.RoleName)) :
         LET c == Log("GetRole", "identity", loc.st.RoleName, out) IN
         /\ faults' = Spend(out)
         /\ IF GetRoleFails(out)
            THEN Finish("error", <<"failed during existence check", "GetRole failed">>,
                        <<>>, c, remote)
            ELSE IF RoleVerdict(out) = "false"
            THEN Finish("false", <<>>, <<>>, c, remote)
            ELSE Step("Check_Function", c, loc, remote, done)

\* A wrong verdict: the function lookup's answer is not consulted
FunctionVerdictAlways(out) == "true"

\* CheckResourceExistence lines 38-43: fnConfig == nil is "absent"
FunctionVerdict(out) == IF out = "ok" THEN "true" ELSE "false"

Check_Function ==
    /\ pc = "Check_Function"
    /\ \E out \in Outcomes(GetFunctionAnswer(loc.st.FunctionName)) :
         LET c == Log("GetFunction", "compute", loc.st.FunctionName, out) IN
         /\ faults' = Spend(out)
         /\ IF GetFunctionFails(out)
            THEN Finish("error", <<"failed during existence check", "GetFunction failed">>,
                        <<>>, c, remote)
            ELSE Finish(FunctionVerdict(out), <<>>, <<>>, c, remote)

----------------------------------------------------------------------------
(* resourceDelete -> DeleteDeployment *)

\* DeleteRoutesOrchestration: after the wait, DeleteResources (which returns
\* at once on an empty map)
AfterMethods(st) ==
    IF DOMAIN st.Resources = {} THEN "Delete_RemovePermission" ELSE "Delete_Sort"

\* A wrong loop: only the first route's method is deleted
AfterDeleteMethodFirstOnly(i, st) ==
    IF i < 1 /\ Len(st.Routes) > 0 THEN "Delete_Method" ELSE "Delete_Consistency"

\* DeleteRoutesOrchestration lines 71-74: every route's method goes first, then
\* the wait
AfterDeleteMethod(i, st) ==
    IF i < Len(st.Routes) THEN "Delete_Method" ELSE "Delete_Consistency"

StartDelete ==
    /\ pc = "idle"
    /\ Len(hist) < limit
    /\ IF record = <<>>
       THEN ReturnAtOnce("resourceDelete")
       ELSE Step(AfterDeleteMethod(0, record[1]), <<>>,
                 [InitLoc EXCEPT !.op = "delete", !.st = record[1], !.i = 1, !.n = 1,
                                 !.j = 1],
                 remote, {})
    /\ UNCHANGED faults

\* apigateway DeleteMethod as answered by the remote
DeleteMethodAnswer(rid, method) ==
    IF \E m \in remote.methods : m.rid = rid /\ m.method = method THEN "ok"
    ELSE "NotFoundException"

\* What the gateway drops with a method
WithoutMethods(r, gone) ==
    [r EXCEPT !.methods = {m \in @ : <<m.rid, m.method>> \notin gone},
              !.integrations = @ \ gone,
              !.methodResponses = @ \ gone,
              !.integrationResponses = @ \ gone]

\* The service ignores what DeleteMethod returns
Delete_Method ==
    /\ pc = "Delete_Method"
    /\ LET route == loc.st.Routes[loc.i] IN
       \E out \in Outcomes(DeleteMethodAnswer(route.ResourceID, route.Method)) :
         LET c == Log("DeleteMethod", "router", <<route.ResourceID, route.Method>>, out) IN
         /\ faults' = Spend(out)
         /\ Step(AfterDeleteMethod(loc.i, loc.st), c, [loc EXCEPT !.i = @ + 1],
                 IF out = "ok"
                 THEN WithoutMethods(remote, {<<route.ResourceID, route.Method>>})
                 ELSE remote,
                 done)

\* DeleteRoutesOrchestration line 74: time.Sleep(500 * time.Millisecond)
Delete_Consistency ==
    Sleep("Delete_Consistency", AfterMethods(loc.st), loc,
          IF DOMAIN loc.st.Resources = {} THEN done \cup {"router"} ELSE done)

\* for path, res := range resources: Go leaves the order of a map range open
RangeOrders(m) ==
    {f \in [1..Cardinality(DOMAIN m) -> DOMAIN m] :
       \A x \in DOMAIN m : \E n \in DOMAIN f : f[n] = x}

\* DeleteResources lines 244-251
ResourceDepths(m, order) ==
    [n \in DOMAIN order |-> [resourceID |-> m[order[n]].ResourceID,
                             path |-> order[n],
                             depth |-> CountSlash(order[n])]]

Swap(s, a, b) == [s EXCEPT ![a] = s[b], ![b] = s[a]]

\* A wrong comparison: ascending depth
DeeperFlipped(x, y) == x.depth < y.depth

\* DeleteResources line 256
Deeper(x, y) == x.depth > y.depth

RECURSIVE InnerLoop(_, _, _)
InnerLoop(s, a, b) ==
    IF b > Len(s) THEN s
    ELSE InnerLoop(IF Deeper(s[b], s[a]) THEN Swap(s, a, b) ELSE s, a, b + 1)

RECURSIVE OuterLoop(_, _)
\* DeleteResources lines 254-260
OuterLoop(s, a) == IF a > Len(s) THEN s ELSE OuterLoop(InnerLoop(s, a, a + 1), a + 1)

SortByDepth(s) == OuterLoop(s, 1)

Delete_Sort ==
    /\ pc = "Delete_Sort"
    /\ \E order \in RangeOrders(loc.st.Resources) :
         Step("Delete_Resource", calls,
              [loc EXCEPT !.sorted = SortByDepth(ResourceDepths(loc.st.Resources, order)),
                          !.n = 1],
              remote, done)
    /\ UNCHANGED faults

\* apigateway DeleteResource as answered by the remote
DeleteResourceAnswer(id) ==
    IF \E res \in remote.resources : res.id = id THEN "ok" ELSE "NotFoundException"

IsPrefix(p, q) == Len(p) <= Len(q) /\ SubSeq(q, 1, Len(p)) = p

\* The gateway deletes a resource with everything below it
WithoutResource(r, id) ==
    LET top == (CHOOSE res \in r.resources : res.id = id).path
        goneRes == {res \in r.resources :
                      res.path = top \/ IsPrefix(top \o <<Slash>>, res.path)}
        goneIds == {res.id : res \in goneRes}
        goneMethods == {<<m.rid, m.method>> : m \in {x \in r.methods : x.rid \in goneIds}}
    IN [WithoutMethods(r, goneMethods) EXCEPT !.resources = @ \ goneRes]

\* A wrong sequencing: permission removal left out
AfterDeleteResourceSkip(n, sorted) ==
    IF n < Len(sorted) THEN "Delete_Resource" ELSE "Delete_Function"

\* DeleteResources lines 263-276: an error is at most printed; nil is returned
AfterDeleteResource(n, sorted) ==
    IF n < Len(sorted) THEN "Delete_Resource" ELSE "Delete_RemovePermission"

Delete_Resource ==
    /\ pc = "Delete_Resource"
    /\ LET res == loc.sorted[loc.n] IN
       \E out \in Outcomes(DeleteResourceAnswer(res.resourceID)) :
         LET c == Log("DeleteResource", "router", <<res.resourceID, res.path>>, out) IN
         /\ faults' = Spend(out)
         /\ Step("Delete_ResourcePause", c, loc,
                 IF out = "ok" THEN WithoutResource(remote, res.resourceID) ELSE remote,
                 done)

\* DeleteResources line 273: time.Sleep(200 * time.Millisecond) after each entry
Delete_ResourcePause ==
    Sleep("Delete_ResourcePause", AfterDeleteResource(loc.n, loc.sorted),
          [loc EXCEPT !.n = @ + 1],
          done \cup (IF loc.n = Len(loc.sorted) THEN {"router"} ELSE {}))

\* lambda RemovePermission as answered by the remote
RemovePermissionAnswer(fnName, statementID) ==
    IF <<fnName, statementID>> \in remote.perms THEN "ok" ELSE "ResourceNotFoundException"

\* DeleteDeployment lines 104-105: the result is dropped
Delete_RemovePermission ==
    /\ pc = "Delete_RemovePermission"
    /\ LET fnName == loc.st.FunctionName
           statementID == StatementIDOf(StatementIDOf(loc.st.APIGatewayID))
       IN
       \E out \in Outcomes(RemovePermissionAnswer(fnName, statementID)) :
         LET c == Log("RemovePermission", "permission", <<fnName, statementID>>, out) IN
         /\ faults' = Spend(out)
         /\ Step("Delete_Function", c, loc,
                 IF out = "ok"
                 THEN [remote EXCEPT !.perms = @ \ {<<fnName, statementID>>}]
                 ELSE remote,
                 done \cup {"permission"})

\* lambda DeleteFunction as answered by the remote
DeleteFunctionAnswer(fnName) ==
    IF fnName \in remote.fns THEN "ok" ELSE "ResourceNotFoundException"

\* LambdaRepository.DeleteFunction: not-found is nil
DeleteFunctionFails(out) == out \notin {"ok", "ResourceNotFoundException"}

\* DetachCustom for each recorded policy, or straight to the base policy
DetachPc(j, st) ==
    IF j <= Len(st.AttachedPolicyARNs) THEN "Delete_DetachCustom" ELSE "Delete_DetachBase"

Delete_Function ==
    /\ pc = "Delete_Function"
    /\ LET fnName == loc.st.FunctionName IN
       \E out \in Outcomes(DeleteFunctionAnswer(fnName)) :
         LET c == Log("DeleteFunction", "compute", fnName, out) IN
         /\ faults' = Spend(out)
         /\ Step(DetachPc(1, loc.st), c,
                 [loc EXCEPT !.j = 1,
                             !.errors = IF DeleteFunctionFails(out)
                                        THEN Append(@, [stage |-> "compute",
                                                         text |-> <<"Lambda deletion failed",
                                                                    "DeleteFunction failed">>,
                                                         resource |-> fnName])
                                        ELSE @],
                 IF out = "ok"
                 THEN [remote EXCEPT !.fns = @ \ {fnName},
                                     !.perms = {p \in @ : p[1] /= fnName}]
                 ELSE remote,
                 done \cup {"compute"})

\* iam DetachRolePolicy as answered by the remote
DetachPolicyAnswer(roleName, arn) ==
    IF <<roleName, arn>> \in remote.attached THEN "ok" ELSE "NoSuchEntity"

\* DeleteRoleAndPolicies lines 69-72: custom policies, errors dropped
Delete_DetachCustom ==
    /\ pc = "Delete_DetachCustom"
    /\ LET arn == loc.st.AttachedPolicyARNs[loc.j] IN
       \E out \in Outcomes(DetachPolicyAnswer(loc.st.RoleName, arn)) :
         LET c == Log("DetachRolePolicy", "identity", <<loc.st.RoleName, arn>>, out) IN
         /\ faults' = Spend(out)
         /\ Step(DetachPc(loc.j + 1, loc.st), c, [loc EXCEPT !.j = @ + 1],
                 IF out = "ok"
                 THEN [remote EXCEPT !.attached = @ \ {<<loc.st.RoleName, arn>>}]
                 ELSE remote,
                 done)

\* DeleteRoleAndPolicies lines 74-76: the base policy, error dropped
Delete_DetachBase ==
    /\ pc = "Delete_DetachBase"
    /\ \E out \in Outcomes(DetachPolicyAnswer(loc.st.RoleName, BasePolicyArn)) :
         LET c == Log("DetachRolePolicy", "identity", <<loc.st.RoleName, BasePolicyArn>>, out) IN
         /\ faults' = Spend(out)
         /\ Step("Delete_Role", c, loc,
                 IF out = "ok"
                 THEN [remote EXCEPT !.attached = @ \ {<<loc.st.RoleName, BasePolicyArn>>}]
                 ELSE remote,
                 done)

\* iam DeleteRole as answered by the remote
DeleteRoleAnswer(roleName) ==
    IF roleName \notin remote.roles THEN "NoSuchEntity"
    ELSE IF \E a \in remote.attached : a[1] = roleName THEN "DeleteConflict"
    ELSE "ok"

\* IAMRepository.DeleteRole: NoSuchEntity is nil
DeleteRoleFails(out) == out \notin {"ok", "NoSuchEntity"}

Delete_Role ==
    /\ pc = "Delete_Role"
    /\ \E out \in Outcomes(DeleteRoleAnswer(loc.st.RoleName)) :
         LET c == Log("DeleteRole", "identity", loc.st.RoleName, out) IN
         /\ faults' = Spend(out)
         /\ Step("Delete_LogGroup", c,
                 [loc EXCEPT !.errors = IF DeleteRoleFails(out)
                                        THEN Append(@, [stage |-> "identity",
                                                         text |-> <<"IAM role deletion failed",
                                                                    "DeleteRole failed">>,
                                                         resource |-> loc.st.RoleName])
                                        ELSE @],
                 IF out = "ok" THEN [remote EXCEPT !.roles = @ \ {loc.st.RoleName}]
                 ELSE remote,
                 done \cup {"identity"})

\* logs DeleteLogGroup as answered by the remote
DeleteLogGroupAnswer(name) ==
    IF name \in remote.logGroups THEN "ok" ELSE "ResourceNotFoundException"

\* CWLogsRepository.DeleteLogGroup line 56
AfterDeleteLogGroup(err) ==
    IF err = "ok" THEN "return"
    ELSE IF IsAPIErrorCode(err, "ResourceNotFoundException") = "panic" THEN "panic"
    ELSE "return"

\* DeleteDeployment lines 118-124
Delete_LogGroup ==
    /\ pc = "Delete_LogGroup"
    /\ \E out \in Outcomes(DeleteLogGroupAnswer(loc.st.LogGroup)) :
         LET c == Log("DeleteLogGroup", "logsink", loc.st.LogGroup, out)
             r == IF out = "ok"
                  THEN [remote EXCEPT !.logGroups = @ \ {loc.st.LogGroup},
                                      !.retention = {x \in @ : x[1] /= loc.st.LogGroup}]
                  ELSE remote
         IN
         /\ faults' = Spend(out)
         /\ IF AfterDeleteLogGroup(out) = "panic"
            THEN Finish("panic", <<"nil pointer dereference", "isAPIErrorCode">>,
                        <<>>, c, r)
            ELSE IF Len(loc.errors) > 0
            THEN Finish("error", <<"multiple errors during deletion", loc.errors>>,
                        <<>>, c, r)
            ELSE Finish("ok", <<>>, <<>>, c, r)

----------------------------------------------------------------------------
(* The environment: something removed behind the provider's back *)

Targets == {"function", "role", "logGroup"}

OutOfBandDelete ==
    /\ pc = "idle"
    /\ ~ tamper
    /\ Len(hist) < limit
    /\ record /= <<>>
    /\ \E t \in Targets :
         LET st == record[1] IN
         /\ IF t = "function" THEN st.FunctionName \in remote.fns
            ELSE IF t = "role" THEN st.RoleName \in remote.roles
            ELSE st.LogGroup \in remote.logGroups
         /\ remote' =
              IF t = "function"
              THEN [remote EXCEPT !.fns = @ \ {st.FunctionName},
                                  !.perms = {p \in @ : p[1] /= st.FunctionName}]
              ELSE IF t = "role"
              THEN [remote EXCEPT !.roles = @ \ {st.RoleName},
                                  !.attached = {a \in @ : a[1] /= st.RoleName}]
              ELSE [remote EXCEPT !.logGroups = @ \ {st.LogGroup},
                                  !.retention = {x \in @ : x[1] /= st.LogGroup}]
    /\ tamper' = TRUE
    /\ UNCHANGED <<pc, loc, calls, done, result, record, hist, faults, cfg, ctx, wait,
                   limit, s3, conf, custom>>

\* Another actor at work in the same account while EnsureDeployment runs: it
\* creates the role or the function under the same name, or removes the
\* function, or (a second EnsurePath on the same gateway) creates the path
\* resource this one has just looked up in vain; it counts against the same
\* budget as the terminal failures
Races == {"createRole", "createFunction", "deleteFunction", "createResource"}

ConcurrentActor ==
    /\ pc /= "idle"
    /\ loc.op = "ensure"
    /\ faults > 0
    /\ \E race \in Races :
         LET fnName == loc.spec.lc.FunctionName
             roleName == RoleNameOf(fnName)
         IN
         /\ IF race = "createRole" THEN roleName \notin remote.roles
            ELSE IF race = "createFunction" THEN fnName \notin remote.fns
            ELSE IF race = "deleteFunction" THEN fnName \in remote.fns
            ELSE pc = "Routes_CreateResource"
                 /\ CreateResourceAnswer(loc.currentParentID, loc.parts[loc.k]) = "ok"
         /\ remote' =
              IF race = "createRole" THEN [remote EXCEPT !.roles = @ \cup {roleName}]
              ELSE IF race = "createFunction" THEN [remote EXCEPT !.fns = @ \cup {fnName}]
              ELSE IF race = "deleteFunction"
              THEN [remote EXCEPT !.fns = @ \ {fnName},
                                  !.perms = {p \in @ : p[1] /= fnName}]
              ELSE [remote EXCEPT
                      !.resources = @ \cup {[id |-> remote.nextId,
                                             path |-> loc.currentPath]},
                      !.nextId = @ + 1]
    /\ faults' = faults - 1
    /\ UNCHANGED <<pc, loc, calls, done, result, record, hist, tamper, cfg, ctx, wait,
                   limit, s3, conf, custom>>

\* The context of the operation in progress is cancelled (Terraform was
\* interrupted, or its timeout ran out); it counts against the same budget as
\* the terminal failures
Cancel ==
    /\ pc /= "idle"
    /\ ctx = "live"
    /\ faults > 0
    /\ ctx' = "cancelled"
    /\ faults' = faults - 1
    /\ UNCHANGED <<remote, pc, loc, calls, done, result, record, hist, tamper, cfg, wait,
                   limit, s3, conf, custom>>

Next ==
    \/ StartEnsure
    \/ EnsureRole_GetRole
    \/ EnsureRole_CreateRole
    \/ EnsureRole_AttachBase
    \/ EnsureRole_AttachCustom
    \/ EnsureRole_Propagation
    \/ EnsureFunction_ReadZip
    \/ EnsureFunction_Get
    \/ EnsureFunction_UpdateConfig
    \/ EnsureFunction_UpdateCode
    \/ EnsureFunction_Wait
    \/ EnsureFunction_FinalCheck
    \/ EnsureFunction_Create
    \/ EnsureLogGroup_Create
    \/ EnsureLogGroup_PutRetention
    \/ AddPermission
    \/ Routes_GetRoot
    \/ Routes_FindPath
    \/ Routes_CreateResource
    \/ Routes_PutMethod
    \/ Routes_PutIntegration
    \/ Routes_PutMethodResponse
    \/ Routes_PutIntegrationResponse
    \/ Routes_Deploy
    \/ StartCheck
    \/ Check_Role
    \/ Check_Function
    \/ StartDelete
    \/ Delete_Method
    \/ Delete_Consistency
    \/ Delete_Sort
    \/ Delete_Resource
    \/ Delete_ResourcePause
    \/ Delete_RemovePermission
    \/ Delete_Function
    \/ Delete_DetachCustom
    \/ Delete_DetachBase
    \/ Delete_Role
    \/ Delete_LogGroup
    \/ OutOfBandDelete
    \/ ConcurrentActor
    \/ Cancel

Spec == Init /\ [][Next]_vars

\* Creation and teardown on a gateway shared with other deployments
SpecShared == InitShared /\ [][Next]_vars

\* Creation and teardown with memory_size and timeout declared
SpecNumeric == InitNumeric /\ [][Next]_vars

\* The configuration is edited between two applies: the last route is
\* removed, or the first route, open so far, is put behind the authorizer
Edits == {"dropLast", "authorize"}

Reconfigure ==
    /\ pc = "idle"
    /\ record /= <<>>
    /\ Len(hist) < limit
    /\ Len(cfg.routes) > 0
    /\ \E edit \in Edits :
         IF edit = "dropLast"
         THEN cfg' = [cfg EXCEPT !.routes = SubSeq(@, 1, Len(@) - 1)]
         ELSE /\ cfg.routes[1].authorization = "NONE"
              /\ cfg' = [cfg EXCEPT !.routes[1].authorization = "CUSTOM"]
    /\ UNCHANGED <<remote, pc, loc, calls, done, result, record, hist, tamper, faults,
                   ctx, wait, limit, s3, conf, custom>>

NextUpdate ==
    \/ Next
    \/ Reconfigure

\* Creation, updates with a shortened route list, teardown
SpecUpdate == InitUpdate /\ [][NextUpdate]_vars

\* A step of the operation in progress: the handler runs in one goroutine that
\* the Go scheduler keeps running, so a step that stays possible is taken
OperationStep == pc /= "idle" /\ Next /\ ~ Cancel /\ ~ ConcurrentActor

FairSpec == Init /\ [][Next]_vars /\ WF_vars(OperationStep)

----------------------------------------------------------------------------
(* providerConfigure -> HCLStateService.HandleStateOperation *)

\* What the two objects of the state bucket can hold when Terraform starts
Buckets == [state : {"none", "v1", "v2"}, rollback : {"none", "v1", "v2"}]

\* No resource declared: only the provider is configured
NothingDeclared == {c \in Declared : c.policies = <<>> /\ c.routes = <<>>}

InitConfigure == InitOn(InitRemote, NothingDeclared, 0, Buckets, {NoCustom})

\* providerConfigure lines 75-78: the provider block is read
ProviderConfigure ==
    /\ conf.pc = "idle"
    /\ conf.runs < MaxConfigures
    /\ \E bucket \in {"", "bucket"}, rollback \in BOOLEAN :
         conf' = [pc |-> "ClientNew", s3Bucket |-> bucket, doRollback |-> rollback,
                  diags |-> <<>>, ops |-> <<>>, bundle |-> FALSE, runs |-> conf.runs + 1]
    /\ UNCHANGED <<remote, pc, loc, calls, done, result, record, hist, tamper, faults,
                   cfg, ctx, wait, limit, s3, custom>>

\* providerConfigure lines 81-85 and 111-117: client.New (the configuration
\* loaded, the account id fetched); on its failure nil and the error are
\* returned, else the state operation follows when a bucket is configured
ClientNew ==
    /\ conf.pc = "ClientNew"
    /\ \E out \in {"ok", "error"} :
         conf' = IF out = "error"
                 THEN [conf EXCEPT !.pc = "done",
                                   !.diags = <<[severity |-> "Error",
                                                summary |-> "failed to create aws client"]>>]
                 ELSE IF conf.s3Bucket /= ""
                 THEN [conf EXCEPT !.pc = "HandleStateOperation"]
                 ELSE [conf EXCEPT !.pc = "done", !.bundle = TRUE]
    /\ UNCHANGED <<remote, pc, loc, calls, done, result, record, hist, tamper, faults,
                   cfg, ctx, wait, limit, s3, custom>>

\* A wrong choice: the backup made whatever "rollback" says
StateOperationBackup(doRollback) == "backup"

\* HandleStateOperation lines 20-34: RestoreRollbackState or CreateBackupState
StateOperation(doRollback) == IF doRollback THEN "restore" ELSE "backup"

\* s3 CopyObject as answered by the bucket
CopyObjectAnswer(source) == IF s3[source] = "none" THEN "NoSuchKey" ELSE "ok"

\* HandleStateOperation with the repository method it calls: one CopyObject,
\* rollback copy over the state or state over the rollback copy; a failed
\* restore is an error diagnostic, a failed backup a warning
HandleStateOperation ==
    /\ conf.pc = "HandleStateOperation"
    /\ LET op == StateOperation(conf.doRollback)
           source == IF op = "restore" THEN "rollback" ELSE "state"
           target == IF op = "restore" THEN "state" ELSE "rollback"
       IN
       \E out \in {CopyObjectAnswer(source), "AccessDenied"} :
         LET done1 == [conf EXCEPT !.pc = "done", !.bundle = TRUE,
                                   !.ops = Append(@, [op |-> op, out |-> out,
                                                      before |-> s3])]
         IN
         /\ s3' = IF out = "ok" THEN [s3 EXCEPT ![target] = s3[source]] ELSE s3
         /\ conf' = IF out = "ok" THEN done1
                    ELSE IF op = "restore"
                    THEN [done1 EXCEPT !.diags =
                            Append(@, [severity |-> "Error",
                                       summary |-> "failed to restore rollback state"])]
                    ELSE [done1 EXCEPT !.diags =
                            Append(@, [severity |-> "Warning",
                                       summary |-> "Failed to create state backup"])]
    /\ UNCHANGED <<remote, pc, loc, calls, done, result, record, hist, tamper, faults,
                   cfg, ctx, wait, limit, custom>>

\* Terraform goes on with its command after the provider is configured and
\* may write a new state to the bucket
TerraformRuns ==
    /\ conf.pc = "done"
    /\ \E written \in {s3.state, "v1", "v2"} : s3' = [s3 EXCEPT !.state = written]
    /\ conf' = [conf EXCEPT !.pc = "idle"]
    /\ UNCHANGED <<remote, pc, loc, calls, done, result, record, hist, tamper, faults,
                   cfg, ctx, wait, limit, custom>>

\* Terraform commands one after the other, each configuring the provider first
SpecConfigure ==
    InitConfigure
    /\ [][ProviderConfigure \/ ClientNew \/ HandleStateOperation \/ TerraformRuns]_vars

----------------------------------------------------------------------------
(* The raysouz custom resource: resourceCustomCreate / Read / Update / Delete *)

\* A custom resource as declared: a message (1 to 50 characters, the schema
\* sees to that) and a cloud, which the schema leaves free
CustomDeclared ==
    { [NoCustom EXCEPT !.message = msg, !.cloud = cloud] :
        msg \in {"Hello, Test!", "m2", "m3"}, cloud \in {"aws", "azure", "gcp", "oci", "AWS", ""} }

InitCustom == InitOn(InitRemote, NothingDeclared, 0, {NoObjects}, CustomDeclared)

\* A wrong switch: no default case
SupportedAny(cloud) == TRUE

\* resourceCustomCreate lines 40-52: the cases of the switch that do not return
Supported(cloud) == cloud \in {"aws", "azure", "gcp"}

\* Terraform creates what has no id yet
ResourceCustomCreate ==
    /\ custom.id = ""
    /\ custom.n < MaxCustomOps
    /\ custom' = IF Supported(custom.cloud)
                 THEN [custom EXCEPT !.id = custom.message, !.last = "create",
                                     !.err = "", !.n = @ + 1]
                 ELSE [custom EXCEPT !.last = "create", !.err = "Cloud not supported",
                                     !.n = @ + 1]
    /\ UNCHANGED <<remote, pc, loc, calls, done, result, record, hist, tamper, faults,
                   cfg, ctx, wait, limit, s3, conf>>

ResourceCustomRead ==
    /\ custom.id /= ""
    /\ custom.n < MaxCustomOps
    /\ custom' = [custom EXCEPT !.last = "read", !.err = "", !.n = @ + 1]
    /\ UNCHANGED <<remote, pc, loc, calls, done, result, record, hist, tamper, faults,
                   cfg, ctx, wait, limit, s3, conf>>

\* Terraform updates in place when the declared message changed; the handler
\* leaves the id alone
ResourceCustomUpdate ==
    /\ custom.id /= ""
    /\ custom.n < MaxCustomOps
    /\ \E msg \in {c.message : c \in CustomDeclared} \ {custom.message} :
         custom' = [custom EXCEPT !.message = msg, !.last = "update", !.err = "",
                                  !.n = @ + 1]
    /\ UNCHANGED <<remote, pc, loc, calls, done, result, record, hist, tamper, faults,
                   cfg, ctx, wait, limit, s3, conf>>

ResourceCustomDelete ==
    /\ custom.id /= ""
    /\ custom.n < MaxCustomOps
    /\ custom' = [custom EXCEPT !.id = "", !.last = "delete", !.err = "", !.n = @ + 1]
    /\ UNCHANGED <<remote, pc, loc, calls, done, result, record, hist, tamper, faults,
                   cfg, ctx, wait, limit, s3, conf>>

SpecCustom ==
    InitCustom
    /\ [][ResourceCustomCreate \/ ResourceCustomRead \/ ResourceCustomUpdate
             \/ ResourceCustomDelete]_vars

----------------------------------------------------------------------------
(* Vocabulary of the properties *)

Faultless(cs) == \A n \in DOMAIN cs : cs[n].out \notin {"Terminal", "Canceled"}

Issued(cs, name) == {n \in DOMAIN cs : cs[n].call = name}

Creations == {"CreateRole", "CreateFunction", "CreateLogGroup", "CreateResource"}

Returned(op) == pc = "idle" /\ result.op = op

RECURSIVE JoinPrefix(_, _)
JoinPrefix(parts, k) ==
    IF k = 0 THEN <<>> ELSE JoinPrefix(parts, k - 1) \o <<Slash>> \o parts[k]

\* The cumulative prefixes of one route path, and of a route list
PrefixesOfPath(path) ==
    IF Trim(path) = <<>> THEN {}
    ELSE LET parts == Split(Trim(path)) IN {JoinPrefix(parts, k) : k \in 1..Len(parts)}

PrefixesOf(routes) == UNION {PrefixesOfPath(routes[i].Path) : i \in DOMAIN routes}

ProperPrefix(p, q) == p /= q /\ IsPrefix(p \o <<Slash>>, q)

Stages == {"identity", "compute", "logsink", "permission", "router"}

StageRank(s) ==
    CASE s = "identity" -> 1
      [] s = "compute" -> 2
      [] s = "logsink" -> 3
      [] s = "permission" -> 4
      [] s = "router" -> 5

----------------------------------------------------------------------------
(* C1 *)

\* C1: when EnsureDeployment is called twice in succession with the same spec,
\* nothing else touching the remote state in between and no remote failure in
\* the second call, both calls return success, the second record equals the
\* first, and the second call creates no identity, function, log group or path.
C1_SecondEnsureIdentical ==
    \A n \in 1..(Len(hist) - 1) :
      LET first == hist[n]
          second == hist[n + 1]
      IN
      (/\ first.op = "ensure" /\ first.kind = "ok"
       /\ second.op = "ensure" /\ second.spec = first.spec
       /\ ~ second.tampered
       /\ Faultless(second.calls))
      => /\ second.kind = "ok"
         /\ second.state = first.state
         /\ \A m \in DOMAIN second.calls :
              second.calls[m].call \in Creations => second.calls[m].out /= "ok"

----------------------------------------------------------------------------
(* C2 *)

\* C2: within one EnsureRoutesAndDeploy call CreateResource is invoked at most
\* once per distinct cumulative prefix, and on success the ResourceInfo map has
\* exactly the distinct cumulative prefixes of the routes as its keys.
C2_OneCreationPerPrefix ==
    /\ \A a, b \in Issued(calls, "CreateResource") :
         calls[a].arg[3] = calls[b].arg[3] => a = b
    /\ (Returned("ensure") /\ result.kind = "ok")
         => DOMAIN result.state[1].Resources = PrefixesOf(loc.spec.routes)

----------------------------------------------------------------------------
(* C3 *)

\* C3: during teardown the DeleteResource calls go in descending depth: a
\* recorded path is deleted strictly before every recorded proper prefix of it,
\* and when teardown returns each recorded path has had exactly one
\* DeleteResource call.
C3_DeeperFirst ==
    /\ \A a, b \in Issued(calls, "DeleteResource") :
         /\ ProperPrefix(calls[a].arg[2], calls[b].arg[2]) => b < a
         /\ a < b => CountSlash(calls[a].arg[2]) >= CountSlash(calls[b].arg[2])
    /\ Returned("delete")
         => \A p \in DOMAIN loc.st.Resources :
              Cardinality({a \in Issued(calls, "DeleteResource") : calls[a].arg[2] = p}) = 1

\* A teardown that deleted three paths, one of them the parent of another
C3_Witness ==
    /\ Returned("delete")
    /\ Cardinality(Issued(calls, "DeleteResource")) = 3
    /\ \E a, b \in Issued(calls, "DeleteResource") :
         ProperPrefix(calls[b].arg[2], calls[a].arg[2])

----------------------------------------------------------------------------
(* C4 *)

\* C4: during teardown no DeleteResource call is issued until a DeleteMethod
\* call has been issued for every route of the record: the first calls of the
\* teardown are the DeleteMethod calls of the recorded routes, one per route.
C4_MethodsBeforeResources ==
    \A b \in Issued(calls, "DeleteResource") :
      /\ Len(loc.st.Routes) < b
      /\ \A r \in DOMAIN loc.st.Routes :
           /\ calls[r].call = "DeleteMethod"
           /\ calls[r].arg = <<loc.st.Routes[r].ResourceID, loc.st.Routes[r].Method>>

\* A path resource deleted in the teardown of a record with two routes
C4_Witness ==
    /\ Issued(calls, "DeleteResource") /= {}
    /\ Len(loc.st.Routes) = 2
    /\ loc.st.Routes[1].ResourceID /= loc.st.Routes[2].ResourceID

----------------------------------------------------------------------------
(* C5 *)

\* The operation ended in the log sink stage: identity and compute had returned
\* success, a log sink call was refused, and the stage did not return success
LogSinkFailed(h) ==
    /\ {"identity", "compute"} \subseteq h.done
    /\ "logsink" \notin h.done
    /\ \E m \in DOMAIN h.calls : h.calls[m].stage = "logsink" /\ h.calls[m].out = "Terminal"

\* C5: an EnsureDeployment whose LogSink stage fails returns an error, and an
\* EnsureDeployment that follows it with the same spec issues neither CreateRole
\* nor CreateFunction.
C5_LogSinkFailureIsAnError ==
    \A n \in DOMAIN hist :
      (hist[n].op = "ensure" /\ LogSinkFailed(hist[n]))
      => /\ hist[n].kind = "error"
         /\ (/\ n < Len(hist)
             /\ hist[n + 1].op = "ensure"
             /\ hist[n + 1].spec = hist[n].spec
             /\ ~ hist[n + 1].tampered)
            => /\ Issued(hist[n + 1].calls, "CreateRole") = {}
               /\ Issued(hist[n + 1].calls, "CreateFunction") = {}

----------------------------------------------------------------------------
(* C6 *)

\* C6: CheckResourceExistence answers true only when its own lookups found both
\* the role and the function, which then both exist; when no lookup failed it
\* answers false if the function is gone (the role still there or not) and
\* false if the role is absent.
C6_TrueOnlyIfBothExist ==
    (Returned("check") /\ ~ tamper)
    => /\ result.kind = "true"
            => /\ loc.st.RoleName \in remote.roles
               /\ loc.st.FunctionName \in remote.fns
               /\ \E a \in Issued(calls, "GetRole") : calls[a].out = "ok"
               /\ \E a \in Issued(calls, "GetFunction") : calls[a].out = "ok"
       /\ (Faultless(calls) /\ loc.st.FunctionName \notin remote.fns)
            => result.kind = "false"
       /\ (Faultless(calls) /\ loc.st.RoleName \notin remote.roles)
            => result.kind = "false"

\* The function was removed, the role is still there, and the answer was false
C6_Witness ==
    /\ Returned("check")
    /\ result.kind = "false"
    /\ loc.st.RoleName \in remote.roles
    /\ loc.st.FunctionName \notin remote.fns

----------------------------------------------------------------------------
(* C7 *)

Benign == {"ok", "NotFoundException", "ResourceNotFoundException", "NoSuchEntity"}

\* C7: a teardown attempts the deletion of every recorded path resource and
\* every later step (permission removal, function, role, log group) whatever a
\* path deletion answered, and when every call was answered with success or
\* not-found the teardown returns success.
C7_TeardownContinues ==
    Returned("delete")
    => /\ \A p \in DOMAIN loc.st.Resources :
            \E a \in Issued(calls, "DeleteResource") : calls[a].arg[2] = p
       /\ \A name \in {"RemovePermission", "DeleteFunction", "DeleteRole", "DeleteLogGroup"} :
            Issued(calls, name) /= {}
       /\ (\A n \in DOMAIN calls : calls[n].out \in Benign) => result.kind = "ok"

----------------------------------------------------------------------------
(* C8 *)

\* The aggregate error has an entry for the path resource
NamesResource(msg, res) ==
    /\ Len(msg) = 2
    /\ \E e \in DOMAIN msg[2] : msg[2][e].stage = "router" /\ msg[2][e].resource = res

\* C8: when a DeleteResource call of a teardown fails with an error other than
\* not-found, the teardown returns an error that names that path resource.
C8_ErrorNamesResource ==
    Returned("delete")
    => \A a \in Issued(calls, "DeleteResource") :
         calls[a].out = "Terminal"
         => result.kind = "error" /\ NamesResource(result.msg, calls[a].arg)

----------------------------------------------------------------------------
(* C9 *)

\* C9: the PutMethod call of a route carries no authorizer when the declared
\* mode is NONE, carries the declared authorizer when the mode is not NONE and
\* an authorizer is declared (not missing, not empty), and carries none when
\* the mode is not NONE and no authorizer is declared; one PutMethod per route.
C9_AuthorizerBinding ==
    pc = "Routes_PutIntegration"
    => LET raw == cfg.routes[loc.i]
           put == calls[Len(calls)]
           present == raw.authorizer_id \notin {NilValue, ""}
       IN
       /\ put.call = "PutMethod"
       /\ Cardinality(Issued(calls, "PutMethod")) = loc.i
       /\ raw.authorization = "NONE" => put.arg.authorizer = NoAuthorizer
       /\ (raw.authorization /= "NONE" /\ present)
            => put.arg.authorizer = raw.authorizer_id
       /\ (raw.authorization /= "NONE" /\ ~ present)
            => put.arg.authorizer = NoAuthorizer

----------------------------------------------------------------------------
(* C10 *)

\* C10: in EnsureDeployment the calls are issued stage by stage in the order
\* identity, compute, log sink, permission, router, and a call of a stage is
\* issued only when every earlier stage has returned success.
C10_StageOrder ==
    loc.op = "ensure"
    => /\ \A a, b \in DOMAIN calls :
            a < b => StageRank(calls[a].stage) <= StageRank(calls[b].stage)
       /\ \A b \in DOMAIN calls : \A s \in Stages :
            StageRank(s) < StageRank(calls[b].stage) => s \in done

\* A deployment of two routes that went through all five stages
C10_Witness ==
    /\ Returned("ensure")
    /\ result.kind = "ok"
    /\ Len(loc.spec.routes) = 2
    /\ Issued(calls, "AddPermission") /= {}
    /\ Issued(calls, "CreateDeployment") /= {}

----------------------------------------------------------------------------
(* C11 *)

Deletions ==
    {"DeleteMethod", "DeleteResource", "RemovePermission", "DeleteFunction",
     "DetachRolePolicy", "DeleteRole", "DeleteLogGroup"}

\* C11: an EnsureDeployment in which a stage fails returns an error at once: no
\* call of a later stage and no delete or detach call is issued, and what the
\* completed stages created stays in place.
C11_FailureReturnsAtOnce ==
    (Returned("ensure") /\ result.kind /= "ok" /\ ~ tamper)
    => /\ result.kind = "error"
       /\ \A n \in DOMAIN calls :
            /\ StageRank(calls[n].stage) <= StageRank(calls[Len(calls)].stage)
            /\ calls[n].call \notin Deletions
       /\ "identity" \in done => RoleNameOf(loc.spec.lc.FunctionName) \in remote.roles
       /\ "compute" \in done => loc.spec.lc.FunctionName \in remote.fns

----------------------------------------------------------------------------
(* C12 *)

TeardownRank(s) ==
    CASE s = "router" -> 1
      [] s = "permission" -> 2
      [] s = "compute" -> 3
      [] s = "identity" -> 4
      [] s = "logsink" -> 5

\* The order of the teardown as listed: router (methods, then resources),
\* permission, compute, identity (detach, then delete), log sink; every step
\* issued by the time the teardown returns
TeardownAsListed ==
    loc.op = "delete"
    => /\ \A a, b \in DOMAIN calls :
            a < b => /\ TeardownRank(calls[a].stage) <= TeardownRank(calls[b].stage)
                     /\ ~ (calls[a].call = "DeleteResource" /\ calls[b].call = "DeleteMethod")
                     /\ ~ (calls[a].call = "DeleteRole" /\ calls[b].call = "DetachRolePolicy")
       /\ pc = "idle"
            => /\ \A name \in {"RemovePermission", "DeleteFunction", "DetachRolePolicy",
                               "DeleteRole", "DeleteLogGroup"} : Issued(calls, name) /= {}
               /\ Cardinality(Issued(calls, "DeleteMethod")) = Len(loc.st.Routes)
               /\ Cardinality(Issued(calls, "DeleteResource"))
                    = Cardinality(DOMAIN loc.st.Resources)

\* C12 (as stated): the teardown runs router, permission, compute, identity,
\* log sink in that order, and that order is the reverse of the creation order
\* identity, compute, log sink, permission, router.
C12_ReverseOfCreation ==
    /\ TeardownAsListed
    /\ loc.op = "delete"
         => \A a, b \in DOMAIN calls :
              a < b => StageRank(calls[a].stage) >= StageRank(calls[b].stage)

\* C12 (amended): the teardown runs router (methods, then path resources),
\* permission removal, compute, identity (detaching, then deleting), log sink,
\* in that order; the log sink, third in creation, is deleted last.
C12_TeardownOrder ==
    /\ TeardownAsListed
    /\ loc.op = "delete"
         => \A a, b \in DOMAIN calls :
              (calls[a].stage = "logsink" /\ a /= b) => b < a

\* A teardown of a record with routes and path resources that ran to its end
C12_Witness ==
    /\ Returned("delete")
    /\ Issued(calls, "DeleteMethod") /= {}
    /\ Issued(calls, "DeleteResource") /= {}
    /\ Issued(calls, "DeleteLogGroup") /= {}
    /\ Len(loc.st.AttachedPolicyARNs) > 0

----------------------------------------------------------------------------
(* C13 *)

\* C13: a teardown issues every step whatever the earlier steps answered, and
\* the error it returns has an entry for every step among router, compute and
\* identity whose delete call failed.
C13_EveryFailedStepReported ==
    Returned("delete")
    => /\ \A name \in {"RemovePermission", "DeleteFunction", "DeleteRole", "DeleteLogGroup"} :
            Issued(calls, name) /= {}
       /\ \A n \in DOMAIN calls :
            (calls[n].call \in {"DeleteResource", "DeleteFunction", "DeleteRole"}
             /\ calls[n].out \notin Benign)
            => /\ result.kind = "error"
               /\ \E e \in DOMAIN result.msg[2] : result.msg[2][e].stage = calls[n].stage

----------------------------------------------------------------------------
(* C14 *)

\* C14: an EnsureRoutesAndDeploy call issues CreateDeployment at most once, for
\* the declared gateway and stage, as its last call and only when every route
\* has had its four bindings; a successful call has issued it.
C14_OneDeployAfterAllRoutes ==
    loc.op = "ensure"
    => /\ Cardinality(Issued(calls, "CreateDeployment")) <= 1
       /\ \A d \in Issued(calls, "CreateDeployment") :
            /\ d = Len(calls)
            /\ calls[d].arg = <<ApiID, StageName>>
            /\ Cardinality({n \in Issued(calls, "PutIntegrationResponse") :
                              calls[n].out \in {"ok", "ConflictException"}})
                 = Len(loc.spec.routes)
       /\ (pc = "idle" /\ result.kind = "ok")
            => \E d \in Issued(calls, "CreateDeployment") : calls[d].out = "ok"

\* A successful deployment of two routes on different paths
C14_Witness ==
    /\ Returned("ensure")
    /\ result.kind = "ok"
    /\ Len(loc.spec.routes) = 2
    /\ Cardinality(Issued(calls, "CreateResource")) >= 2

----------------------------------------------------------------------------
(* C16 *)

Created(name) == \E n \in Issued(calls, name) : calls[n].out = "ok"

\* C16: after an EnsureDeployment that failed when it had already created
\* something, a record is stored that names what was created.
C16_PartialRecordKept ==
    (Returned("ensure") /\ result.kind /= "ok" /\ \E name \in Creations : Created(name))
    => /\ record /= <<>>
       /\ Created("CreateRole")
            => record[1].RoleName = RoleNameOf(loc.spec.lc.FunctionName)
       /\ Created("CreateFunction")
            => record[1].FunctionName = loc.spec.lc.FunctionName
       /\ Created("CreateLogGroup")
            => record[1].LogGroup = LogGroupNameOf(loc.spec.lc.FunctionName)
       /\ \A n \in Issued(calls, "CreateResource") :
            calls[n].out = "ok" => calls[n].arg[3] \in DOMAIN record[1].Resources

----------------------------------------------------------------------------
(* C17 *)

\* C17: a stored record is the state returned by a successful EnsureDeployment;
\* a successful EnsureDeployment stores exactly what it returned, built from
\* this call's routes and policies alone; a failed one leaves the stored record
\* as it was.
C17_RecordOnlyFromSuccess ==
    /\ record /= <<>>
         => \E n \in DOMAIN hist :
              hist[n].op = "ensure" /\ hist[n].kind = "ok" /\ hist[n].state = record
    /\ Returned("ensure")
         => IF result.kind = "ok"
            THEN /\ record = result.state
                 /\ Len(record[1].Routes) = Len(loc.spec.routes)
                 /\ DOMAIN record[1].Resources = PrefixesOf(loc.spec.routes)
                 /\ record[1].AttachedPolicyARNs = loc.spec.lc.PolicyARNs
            ELSE record = hist[Len(hist)].before

\* An update that failed with a record stored by an earlier deployment
C17_Witness ==
    /\ Returned("ensure")
    /\ result.kind /= "ok"
    /\ record /= <<>>

----------------------------------------------------------------------------
(* C18 *)

StageText(s) ==
    CASE s = "identity" -> "IAM role setup failed"
      [] s = "compute" -> "Lambda function setup failed"
      [] s = "logsink" -> "Log group setup failed"
      [] s = "permission" -> "Lambda permission failed"
      [] s = "router" -> "APIGW route setup failed"

\* C18: an error returned by EnsureDeployment carries the text of the stage
\* whose call failed, and that stage is the first to fail: every earlier stage
\* had returned success and it had not.
C18_ErrorNamesFirstFailedStage ==
    (Returned("ensure") /\ result.kind = "error")
    => LET failed == calls[Len(calls)].stage IN
       /\ result.msg[1] = StageText(failed)
       /\ failed \notin done
       /\ \A s \in Stages : StageRank(s) < StageRank(failed) => s \in done

\* The permission grant failed after three stages had succeeded
C18_Witness ==
    /\ Returned("ensure")
    /\ result.kind = "error"
    /\ calls[Len(calls)].stage = "permission"
    /\ {"identity", "compute", "logsink"} \subseteq done

----------------------------------------------------------------------------
(* C19 *)

\* C19: once the context of an operation is cancelled, a wait in progress is
\* over at the operation's next step instead of running down its remaining
\* ticks, and no PutRetentionPolicy attempt is made after a first one.
C19_CancelEndsWaits ==
    [][(ctx = "cancelled" /\ pc /= "idle")
       => /\ wait > 0 => wait' = 0
          /\ Issued(calls, "PutRetentionPolicy") /= {}
               => Issued(calls', "PutRetentionPolicy") \subseteq Issued(calls, "PutRetentionPolicy")
      ]_vars

----------------------------------------------------------------------------
(* C20 *)

\* C20: every EnsureDeployment and every DeleteDeployment that has started
\* comes to its end (it returns, or the process stops), given that each call
\* returns and the flow keeps being scheduled.
C20_Terminates ==
    (pc /= "idle" /\ loc.op \in {"ensure", "delete"}) ~> (pc = "idle")

\* A deployment that went through the propagation wait and its teardown that
\* went through the deletion waits, both returned
C20_Witness ==
    /\ pc = "idle"
    /\ Len(hist) = 2
    /\ hist[1].op = "ensure" /\ hist[1].kind = "ok"
    /\ hist[2].op = "delete" /\ hist[2].kind = "ok"
    /\ Cardinality(Issued(hist[2].calls, "DeleteResource")) >= 2
    /\ Issued(hist[1].calls, "CreateRole") /= {}

----------------------------------------------------------------------------
(* C15 *)

\* Every operation so far was a successful EnsureDeployment, but the last, which
\* is a DeleteDeployment whose every remote call succeeded
EnsuresThenCleanDelete ==
    /\ pc = "idle"
    /\ Len(hist) >= 2
    /\ \A n \in 1..(Len(hist) - 1) : hist[n].op = "ensure" /\ hist[n].kind = "ok"
    /\ hist[Len(hist)].op = "delete"
    /\ hist[Len(hist)].kind = "ok"
    /\ \A m \in DOMAIN hist[Len(hist)].calls : hist[Len(hist)].calls[m].out = "ok"

\* C15: after successful EnsureDeployment calls (each replacing the record, the
\* route list possibly shorter) and a DeleteDeployment on the latest record in
\* which every remote delete succeeded, the gateway holds no method binding and
\* no path resource but its root.
C15_RecordSufficesForDeletion ==
    EnsuresThenCleanDelete
    => /\ remote.methods = {}
       /\ remote.integrations = {}
       /\ \A res \in remote.resources : res.id = RootID

----------------------------------------------------------------------------
(* C21 *)

LastPart(p) == LET parts == Split(Trim(p)) IN parts[Len(parts)]

ParentPrefix(p) == LET parts == Split(Trim(p)) IN JoinPrefix(parts, Len(parts) - 1)

FullPrefix(path) == LET parts == Split(Trim(path)) IN JoinPrefix(parts, Len(parts))

\* C21: the state returned by a successful EnsureRoutesAndDeploy has one entry
\* for every cumulative prefix of every route path and no other; the entry's id
\* is the gateway's resource at that path (there is one) and its part is the
\* last segment; a route is bound to the entry of its whole path, and a
\* resource created below a prefix was created with that prefix's id as parent.
C21_PrefixEntries ==
    (Returned("ensure") /\ result.kind = "ok")
    => LET st == result.state[1] IN
       /\ DOMAIN st.Resources = PrefixesOf(loc.spec.routes)
       /\ \A p \in DOMAIN st.Resources :
            /\ st.Resources[p].PathPart = LastPart(p)
            /\ \E res \in remote.resources :
                 res.path = p /\ res.id = st.Resources[p].ResourceID
       /\ \A r1, r2 \in remote.resources : r1.path = r2.path => r1.id = r2.id
       /\ \A i \in DOMAIN st.Routes :
            st.Routes[i].ResourceID =
              IF Trim(st.Routes[i].Path) = <<>> THEN RootID
              ELSE st.Resources[FullPrefix(st.Routes[i].Path)].ResourceID
       /\ \A n \in Issued(calls, "CreateResource") :
            calls[n].out = "ok"
            => calls[n].arg[1] =
                 IF ParentPrefix(calls[n].arg[3]) = <<>> THEN RootID
                 ELSE st.Resources[ParentPrefix(calls[n].arg[3])].ResourceID

\* Two routes below one common prefix, deployed
C21_Witness ==
    /\ Returned("ensure")
    /\ result.kind = "ok"
    /\ Len(loc.spec.routes) = 2
    /\ Cardinality(DOMAIN result.state[1].Resources) = 3
    /\ result.state[1].Routes[1].ResourceID /= result.state[1].Routes[2].ResourceID

----------------------------------------------------------------------------
(* C22 *)

Absent == {"NotFoundException", "ResourceNotFoundException", "NoSuchEntity"}

\* C22: a DeleteDeployment in which every remote delete and detach answers
\* not-found returns success.
C22_DeleteIdempotent ==
    (Returned("delete") /\ \A n \in DOMAIN calls : calls[n].out \in Absent)
    => result.kind = "ok"

----------------------------------------------------------------------------
(* C23 *)

\* C23: the identity step of a teardown detaches every recorded grant and the
\* baseline grant, then deletes the role, and no error returned by
\* DeleteDeployment is on account of the identity step.
C23_IdentityNeverFailsTeardown ==
    Returned("delete")
    => /\ \A j \in DOMAIN loc.st.AttachedPolicyARNs :
            \E n \in Issued(calls, "DetachRolePolicy") :
              calls[n].arg = <<loc.st.RoleName, loc.st.AttachedPolicyARNs[j]>>
       /\ \E n \in Issued(calls, "DetachRolePolicy") :
            calls[n].arg = <<loc.st.RoleName, BasePolicyArn>>
       /\ \E n \in Issued(calls, "DeleteRole") :
            \A m \in Issued(calls, "DetachRolePolicy") : m < n
       /\ result.kind = "error"
            => \A e \in DOMAIN result.msg[2] : result.msg[2][e].stage /= "identity"

----------------------------------------------------------------------------
(* C24 *)

\* C24: whatever RemovePermission and DeleteLogGroup answer, a teardown whose
\* router, compute and identity calls all succeeded (or found nothing) returns
\* success.
C24_BestEffortNeverFails ==
    (Returned("delete")
     /\ \A n \in DOMAIN calls :
          calls[n].stage \in {"router", "compute", "identity"} => calls[n].out \in Benign)
    => result.kind = "ok"

----------------------------------------------------------------------------
(* C25 *)

\* C25: after CreateLogGroup answered already-exists, EnsureLogGroup goes on to
\* PutRetentionPolicy, and the log sink stage succeeds once retention is set.
C25_AlreadyExistsIsSuccess ==
    (loc.op = "ensure"
     /\ \E n \in Issued(calls, "CreateLogGroup") :
          calls[n].out = "ResourceAlreadyExistsException")
    => /\ pc = "idle" => Issued(calls, "PutRetentionPolicy") /= {}
       /\ (\E m \in Issued(calls, "PutRetentionPolicy") : calls[m].out = "ok")
            => "logsink" \in done

----------------------------------------------------------------------------
(* C26 *)

\* C26: a failed PutRetentionPolicy attempt is followed by another one until
\* RetryAttempts attempts were made: an EnsureDeployment that ends on a failed
\* attempt (the context not cancelled) has made all of them and returns an
\* error; no attempt follows one that succeeded.
C26_RetentionRetried ==
    loc.op = "ensure"
    => /\ \A n \in Issued(calls, "PutRetentionPolicy") :
            calls[n].out = "ok" => \A m \in Issued(calls, "PutRetentionPolicy") : m <= n
       /\ (/\ pc = "idle"
           /\ calls /= <<>>
           /\ calls[Len(calls)].call = "PutRetentionPolicy"
           /\ calls[Len(calls)].out \notin {"ok", "Canceled"})
          => /\ result.kind = "error"
             /\ Cardinality(Issued(calls, "PutRetentionPolicy")) = RetryAttempts

----------------------------------------------------------------------------
(* C27 *)

\* C27: when the ready-wait of the update path fails or times out, one final
\* GetFunction follows, and EnsureFunction succeeds exactly when that lookup
\* finds the function; otherwise EnsureDeployment ends there with an error.
C27_FinalCheckDecides ==
    loc.op = "ensure"
    => \A w \in Issued(calls, "WaitFunctionActive") :
         (calls[w].out /= "ok" /\ w < Len(calls))
         => /\ calls[w + 1].call = "GetFunction"
            /\ "compute" \in done <=> calls[w + 1].out = "ok"
            /\ calls[w + 1].out /= "ok"
                 => /\ Len(calls) = w + 1
                    /\ pc = "idle"
                    /\ result.kind = "error"

----------------------------------------------------------------------------
(* C28 *)

\* The lookups EnsureFunction starts with (the call after the zip file is read)
Lookups == {g \in Issued(calls, "GetFunction") : g > 1 /\ calls[g - 1].call = "ReadFile"}

\* C28: when the lookup finds the function, the calls that follow in the
\* compute stage are UpdateFunctionConfiguration, UpdateFunctionCode and the
\* ready-wait in that order, each only after the one before it succeeded, and
\* CreateFunction is not issued; the stage does not succeed without the wait.
C28_UpdateThenCodeThenWait ==
    loc.op = "ensure"
    => \A g \in Lookups :
         calls[g].out = "ok"
         => /\ Issued(calls, "CreateFunction") = {}
            /\ g + 1 \in DOMAIN calls
                 => calls[g + 1].call = "UpdateFunctionConfiguration"
            /\ g + 2 \in DOMAIN calls
                 => calls[g + 2].call = "UpdateFunctionCode" /\ calls[g + 1].out = "ok"
            /\ g + 3 \in DOMAIN calls
                 => calls[g + 3].call = "WaitFunctionActive" /\ calls[g + 2].out = "ok"
            /\ "compute" \in done => g + 3 \in DOMAIN calls

\* An update in which the code update failed after the configuration update
C28_Witness ==
    /\ Returned("ensure")
    /\ result.kind = "error"
    /\ calls[Len(calls)].call = "UpdateFunctionCode"
    /\ Issued(calls, "UpdateFunctionConfiguration") /= {}

----------------------------------------------------------------------------
(* C29 *)

\* C29: CreateFunction is issued only after a lookup that answered not-found;
\* a lookup that fails with another error ends EnsureFunction with an error,
\* with no create and no update issued.
C29_CreateOnlyWhenAbsent ==
    loc.op = "ensure"
    => /\ \A c \in Issued(calls, "CreateFunction") :
            c - 1 \in Lookups /\ calls[c - 1].out = "ResourceNotFoundException"
       /\ \A g \in Lookups :
            calls[g].out \notin {"ok", "ResourceNotFoundException"}
            => /\ Len(calls) = g
               /\ pc = "idle" /\ result.kind = "error"

----------------------------------------------------------------------------
(* C30 *)

\* C30: after CreateFunction (CreateRole) answered conflict (already-exists),
\* the lookup by name follows; when it finds the resource the stage goes on
\* with the existing resource's reference, and when it does not EnsureDeployment
\* returns an error.  A create that fails otherwise returns an error at once.
C30_CreateRaceRefetched ==
    loc.op = "ensure"
    => /\ \A c \in Issued(calls, "CreateFunction") :
            /\ calls[c].out = "ResourceConflictException"
                 => /\ c < Len(calls) /\ calls[c + 1].call = "GetFunction"
                    /\ IF calls[c + 1].out = "ok"
                       THEN "compute" \in done
                            /\ loc.fnArn = FunctionArnOf(loc.spec.lc.FunctionName)
                       ELSE Len(calls) = c + 1 /\ pc = "idle" /\ result.kind = "error"
            /\ calls[c].out \notin {"ok", "ResourceConflictException"}
                 => Len(calls) = c /\ pc = "idle" /\ result.kind = "error"
       /\ \A c \in Issued(calls, "CreateRole") :
            /\ calls[c].out = "EntityAlreadyExists"
                 => /\ c < Len(calls) /\ calls[c + 1].call = "GetRole"
                    /\ IF calls[c + 1].out = "ok"
                       THEN loc.roleArn = RoleArnOf(RoleNameOf(loc.spec.lc.FunctionName))
                            /\ (Len(calls) = c + 1 => pc = "EnsureRole_AttachBase")
                       ELSE Len(calls) = c + 1 /\ pc = "idle" /\ result.kind = "error"
            /\ calls[c].out \notin {"ok", "EntityAlreadyExists"}
                 => Len(calls) = c /\ pc = "idle" /\ result.kind = "error"

\* The role was created by someone else between the lookup and the create, and
\* the identity stage succeeded all the same
C30_Witness ==
    /\ loc.op = "ensure"
    /\ \E c \in Issued(calls, "CreateRole") : calls[c].out = "EntityAlreadyExists"
    /\ "identity" \in done

----------------------------------------------------------------------------
(* C31 *)

\* The id EnsurePath holds for a prefix: in its own map, or in the map the
\* service merged it into
HeldFor(path) ==
    IF path \in DOMAIN loc.resources THEN loc.resources[path].ResourceID
    ELSE IF path \in DOMAIN loc.apigwResources THEN loc.apigwResources[path].ResourceID
    ELSE 0

----------------------------------------------------------------------------
(* C32 *)

BindingCalls == <<"PutMethod", "PutIntegration", "PutMethodResponse",
                  "PutIntegrationResponse">>

\* The (resource, method) a binding call was made for
BindingKey(c) ==
    IF c.call = "PutMethod" THEN <<c.arg.rid, c.arg.method>>
    ELSE IF c.call = "PutIntegration" THEN c.arg[1]
    ELSE c.arg

\* The four binding calls ending at position e of the log were made for key
\* and none of them returned an error
BoundAt(e, key) ==
    /\ e >= 4
    /\ \A b \in 1..4 :
         LET c == calls[e - 4 + b] IN
         /\ c.call = BindingCalls[b]
         /\ BindingKey(c) = key
         /\ c.out \in {"ok", "ConflictException"}

\* C32: the RouteStates gathered by EnsureRoutesAndDeploy follow the input
\* routes one for one and in order (all of them once it has returned success);
\* each was noted after PutMethod, PutIntegration, PutMethodResponse and
\* PutIntegrationResponse of its route had succeeded, as many routes noted as
\* bindings completed; its resource id is the root's for the root path and
\* else the id held in Resources for the route's whole path.
C32_RouteStatePerRoute ==
    loc.op = "ensure"
    => LET rs == loc.routesState
           completed == {e \in Issued(calls, "PutIntegrationResponse") :
                           calls[e].out \in {"ok", "ConflictException"}}
       IN
       /\ Len(rs) <= Len(loc.spec.routes)
       /\ Cardinality(completed) = Len(rs)
       /\ \A n \in DOMAIN rs :
            LET r == loc.spec.routes[n] IN
            /\ rs[n].Path = r.Path /\ rs[n].Method = r.Method
            /\ rs[n].Authorization = r.Authorization
            /\ rs[n].AuthorizerID = r.AuthorizerID
            /\ \E e \in completed :
                 /\ Cardinality({x \in completed : x <= e}) = n
                 /\ BoundAt(e, <<rs[n].ResourceID, rs[n].Method>>)
            /\ rs[n].ResourceID =
                 IF Trim(r.Path) = <<>> THEN loc.rootID
                 ELSE IF FullPrefix(r.Path) \in DOMAIN loc.apigwResources
                 THEN loc.apigwResources[FullPrefix(r.Path)].ResourceID
                 ELSE 0
       /\ (pc = "idle" /\ result.op = "ensure" /\ result.kind = "ok")
            => /\ result.state[1].Routes = rs
               /\ Len(rs) = Len(loc.spec.routes)

\* A deployment of two routes returned, one on the root and one below it
C32_Witness ==
    /\ pc = "idle"
    /\ result.op = "ensure" /\ result.kind = "ok"
    /\ Len(result.state[1].Routes) = 2
    /\ \E n, m \in DOMAIN result.state[1].Routes :
         /\ Trim(result.state[1].Routes[n].Path) = <<>>
         /\ Trim(result.state[1].Routes[m].Path) /= <<>>

----------------------------------------------------------------------------
(* C33 *)

\* C33: after a successful EnsureDeployment the gateway's method for every
\* declared route (at the resource noted for it) carries the authorization and
\* the authorizer the current configuration declares for that route.
C33_BindingsConverge ==
    (Returned("ensure") /\ result.kind = "ok")
    => \A i \in DOMAIN loc.spec.routes :
         LET r == loc.spec.routes[i]
             rid == result.state[1].Routes[i].ResourceID
         IN
         \E m \in remote.methods :
           /\ m.rid = rid /\ m.method = r.Method
           /\ m.authorization = r.Authorization
           /\ m.authorizer = IF AttachAuthorizer(r.Authorization, r.AuthorizerID)
                             THEN r.AuthorizerID ELSE NoAuthorizer

----------------------------------------------------------------------------
(* C34 *)

\* C34: a path resource the gateway held before the first EnsureDeployment
\* (found by EnsurePath, not created by it) is still there after
\* DeleteDeployment.
C34_TeardownSparesExisting ==
    Returned("delete") => SharedRemote.resources \subseteq remote.resources

----------------------------------------------------------------------------
(* C35 *)

\* C35: the MemorySize and Timeout of every CreateFunction and
\* UpdateFunctionConfiguration call are the memory_size and timeout the
\* configuration declares.
C35_NumbersUnmodified ==
    loc.op = "ensure"
    => \A c \in Issued(calls, "CreateFunction")
                \cup Issued(calls, "UpdateFunctionConfiguration") :
         /\ GoInt(calls[c].arg.MemorySize) = cfg.memory_size
         /\ GoInt(calls[c].arg.Timeout) = cfg.timeout

----------------------------------------------------------------------------
(* C36 *)

\* The record (with the resource id) as the n-th finished operation left it
RecordAfter(n) == IF n < Len(hist) THEN hist[n + 1].before ELSE record

Failed(cs) == \E c \in DOMAIN cs : cs[c].out \in {"Terminal", "Canceled"}

----------------------------------------------------------------------------
(* C37 *)

\* C37: a Delete with a stored record drops it (the id cleared) when
\* DeleteDeployment returned success and keeps it as it was when
\* DeleteDeployment returned an error; a Delete with no stored record calls
\* nothing and leaves the resource without id and record.
C37_RecordKeptOnFailedDelete ==
    \A n \in DOMAIN hist :
      /\ hist[n].op = "delete"
           => /\ hist[n].before /= <<>>
              /\ hist[n].kind = "ok" => RecordAfter(n) = <<>>
              /\ hist[n].kind = "error" => RecordAfter(n) = hist[n].before
      /\ hist[n].op = "resourceDelete"
           => /\ hist[n].before = <<>> /\ RecordAfter(n) = <<>>
              /\ hist[n].calls = <<>> /\ hist[n].kind = "ok"

\* A teardown that returned an error, the record still there for the retry
C37_Witness ==
    /\ pc = "idle"
    /\ result.op = "delete" /\ result.kind = "error"
    /\ record /= <<>>
    /\ record = hist[Len(hist)].before

----------------------------------------------------------------------------
(* C38 *)

\* What a finished state operation must have done to the bucket
AfterOperation(o) ==
    IF o.out /= "ok" THEN o.before
    ELSE IF o.op = "restore" THEN [o.before EXCEPT !.state = o.before.rollback]
    ELSE [o.before EXCEPT !.rollback = o.before.state]

Severities(ds) == {ds[k].severity : k \in DOMAIN ds}

\* C38 as stated: with a state bucket configured, a finished providerConfigure
\* has performed exactly one state operation.
C38_OneOperationWithBucket ==
    (conf.pc = "done" /\ conf.s3Bucket /= "") => Len(conf.ops) = 1

\* C38, amended: no state operation without a bucket, and none when the AWS
\* client could not be created (an error diagnostic, nothing else); otherwise
\* exactly one, the restore of the rollback copy over the state when rollback
\* is true and else the backup of the state into the rollback copy; a failed
\* restore gives an error diagnostic, a failed backup only a warning, a
\* successful one no diagnostic; a failed operation leaves the bucket as it was.
C38_OneStateOperation ==
    conf.pc = "done"
    => IF ~ conf.bundle
       THEN conf.ops = <<>> /\ Severities(conf.diags) = {"Error"}
       ELSE IF conf.s3Bucket = ""
       THEN conf.ops = <<>> /\ conf.diags = <<>>
       ELSE /\ Len(conf.ops) = 1
            /\ conf.ops[1].op = (IF conf.doRollback THEN "restore" ELSE "backup")
            /\ s3 = AfterOperation(conf.ops[1])
            /\ Severities(conf.diags) =
                 IF conf.ops[1].out = "ok" THEN {}
                 ELSE IF conf.doRollback THEN {"Error"} ELSE {"Warning"}

\* A rollback restored an older state over the current one
C38_Witness ==
    /\ conf.pc = "done"
    /\ conf.doRollback
    /\ Len(conf.ops) = 1 /\ conf.ops[1].out = "ok"
    /\ conf.ops[1].before.state /= conf.ops[1].before.rollback
    /\ s3.state = conf.ops[1].before.rollback

----------------------------------------------------------------------------
(* C39 *)

\* C39: after Create the resource has the message as its id and no error when
\* the cloud is aws, azure or gcp, and an error and no id for any other cloud;
\* after Delete it has no id.
C39_CreateByCloud ==
    /\ custom.last = "create"
         => IF custom.cloud \in {"aws", "azure", "gcp"}
            THEN custom.err = "" /\ custom.id = custom.message
            ELSE custom.err /= "" /\ custom.id = ""
    /\ custom.last = "delete" => custom.id = "" /\ custom.err = ""

\* The resource of the integration test, created again after a Delete
C39_Witness ==
    /\ custom.last = "create"
    /\ custom.cloud = "aws"
    /\ custom.id = "Hello, Test!"
    /\ custom.n = 3

====
